---- MODULE Spec2Model ----
(***************************************************************************)
(* A model of the natural-language-to-query pipeline of agentkit-sia:      *)
(*   - BigQueryDatabase (app/db/bigquery_database.py): execute_query with  *)
(*     its dry-run cost check, and the paginated_query generator;          *)
(*   - BigQueryTool (chat_agent/tools/library/bigquery_tool): the          *)
(*     generate -> validate -> improve loop of _arun.                      *)
(*                                                                         *)
(* Python strings are sequences of one-character strings, so that find,    *)
(* slicing, strip, split and lower are computed as Python computes them.   *)
(* A literal text that no operation of the program looks inside (an error  *)
(* message, a rendered number) is kept as one element of such a sequence.  *)
(* Optional values are None / Some(v).                                     *)
(***************************************************************************)
EXTENDS Integers, Sequences, FiniteSets, TLC

VARIABLES
    settings_max_bytes, \* settings.BIGQUERY_MAX_BYTES_PROCESSED
    entry,              \* the entry point the caller has invoked
    ex,                 \* the frame of execute_query
    run,                \* the frame of _arun (and of the helpers it awaits)
    pag,                \* the generator object of paginated_query
    wh,                 \* what the warehouse client has been asked to do
    db,                 \* the BigQueryDatabase object and the callers of close()
    call,               \* the frame of test_connection or get_table_schema
    co                  \* the event loop: its tasks, the pool's work, a timer

vars == <<settings_max_bytes, entry, ex, run, pag, wh, db, call, co>>

None == [some |-> FALSE]
Some(v) == [some |-> TRUE, val |-> v]

Min(S) == CHOOSE x \in S : \A y \in S : x <= y
Max(S) == CHOOSE x \in S : \A y \in S : x >= y

(***************************************************************************)
(* Python string operations.                                               *)
(***************************************************************************)

\* s[a:b] for 0 <= a, 0 <= b
Slice(s, a, b) ==
    LET hi == IF b > Len(s) THEN Len(s) ELSE b
    IN  IF a >= hi THEN <<>> ELSE SubSeq(s, a + 1, hi)

\* s.find(sub, start): the lowest index >= start where sub occurs, else -1
Find(s, sub, start) ==
    LET hits == {i \in start..(Len(s) - Len(sub)) :
                     SubSeq(s, i + 1, i + Len(sub)) = sub}
    IN  IF hits = {} THEN -1 ELSE Min(hits)

\* s.startswith(prefix)
StartsWith(s, prefix) ==
    Len(s) >= Len(prefix) /\ SubSeq(s, 1, Len(prefix)) = prefix

\* sub in s
Contains(s, sub) == Find(s, sub, 0) # -1

Whitespace == {" ", "\n", "\t", "\r"}

\* s.strip()
RECURSIVE LStrip(_)
LStrip(s) ==
    IF s # <<>> /\ Head(s) \in Whitespace THEN LStrip(Tail(s)) ELSE s

RECURSIVE RStrip(_)
RStrip(s) ==
    IF s # <<>> /\ s[Len(s)] \in Whitespace
    THEN RStrip(SubSeq(s, 1, Len(s) - 1))
    ELSE s

Strip(s) == RStrip(LStrip(s))

\* s.split(sep) for a one-character sep: the list of the pieces
RECURSIVE Split(_, _)
Split(s, sep) ==
    LET i == Find(s, <<sep>>, 0)
    IN  IF i = -1 THEN <<s>>
        ELSE <<Slice(s, 0, i)>> \o Split(Slice(s, i + 1, Len(s)), sep)

\* sep.join(parts)
RECURSIVE Join(_, _)
Join(parts, sep) ==
    IF parts = <<>> THEN <<>>
    ELSE IF Len(parts) = 1 THEN parts[1]
    ELSE parts[1] \o sep \o Join(Tail(parts), sep)

\* s.replace(old, new): every non-overlapping occurrence, left to right
RECURSIVE Replace(_, _, _)
Replace(s, old, new) ==
    LET i == Find(s, old, 0)
    IN  IF i = -1 THEN s
        ELSE Slice(s, 0, i) \o new
                 \o Replace(Slice(s, i + Len(old), Len(s)), old, new)

LowerChar(c) ==
    CASE c = "A" -> "a" [] c = "B" -> "b" [] c = "D" -> "d" [] c = "E" -> "e"
      [] c = "M" -> "m" [] c = "N" -> "n" [] c = "O" -> "o" [] c = "R" -> "r"
      [] c = "S" -> "s" [] c = "V" -> "v" [] c = "X" -> "x" [] c = "Y" -> "y"
      [] c = "Z" -> "z" [] OTHER -> c

\* s.lower()
Lower(s) == [i \in 1..Len(s) |-> LowerChar(s[i])]

\* bool(s) for a str or a list
Truthy(s) == s # <<>>

(***************************************************************************)
(* The warehouse: what the BigQuery client answers for each query string.  *)
(* Query strings are one letter long; every other string is malformed.     *)
(***************************************************************************)

MaxRows == 5

Q_A == <<"A">>  \* cheap, two rows
Q_M == <<"M">>  \* 1 000 000 bytes, one row
Q_E == <<"E">>  \* 1 000 000 000 bytes, three rows
Q_B == <<"B">>  \* 2 000 000 000 bytes, MaxRows rows
Q_Z == <<"Z">>  \* cheap, no row
Q_X == <<"X">>  \* passes the dry run, fails when run
Q_D == <<"D">>  \* fails the dry run
Q_Empty == <<>> \* the empty query string
Q_L == <<"L">>  \* one row, and a continuation token after every page

Queries == {Q_A, Q_M, Q_E, Q_B, Q_Z, Q_X, Q_D, Q_Empty}

\* queries whose result the warehouse never stops paging
EndlessQueries == {Q_L}

\* query_job.total_bytes_processed of a dry run; None when the dry run raises
WhDryRun(q) ==
    CASE q = Q_A -> Some(500)
      [] q = Q_M -> Some(1000000)
      [] q = Q_E -> Some(1000000000)
      [] q = Q_B -> Some(2000000000)
      [] q = Q_Z -> Some(500)
      [] q = Q_X -> Some(500)
      [] OTHER -> None

WhRowCount(q) ==
    CASE q = Q_A -> 2
      [] q = Q_M -> 1
      [] q = Q_E -> 3
      [] q = Q_B -> MaxRows
      [] q = Q_L -> 1
      [] OTHER -> 0

\* the i-th Row of a result: its keys and its values
WhRow(i) == [keys |-> <<"column1", "n">>, values |-> <<i % 2, 7>>]

\* the RowIterator a real run of q gives, in warehouse order; None when it raises
WhResult(q) ==
    IF q \in {Q_A, Q_M, Q_E, Q_B, Q_Z, Q_L}
    THEN Some([i \in 1..WhRowCount(q) |-> WhRow(i)])
    ELSE None

WhErrorText(q) == <<"400 invalid query: ">> \o q

\* row.items()
Items(row) == [j \in 1..Len(row.keys) |-> <<row.keys[j], row.values[j]>>]

\* dict(pairs): the last pair of a key wins
Dict(pairs) ==
    [k \in {pairs[j][1] : j \in 1..Len(pairs)} |->
        pairs[Max({j \in 1..Len(pairs) : pairs[j][1] = k})][2]]

\* [dict(row.items()) for row in rows]
RowDictsReversed(rows) ==
    [i \in 1..Len(rows) |-> Dict(Items(rows[Len(rows) + 1 - i]))]
RowDicts(rows) == [i \in 1..Len(rows) |-> Dict(Items(rows[i]))]

\* str(e) of an exception
StrOfException(e) == e.msg

\* repr(e) of an exception
ReprOfException(e) == <<e.exc, "(">> \o e.msg \o <<")">>

Raise(exc, msg) == [kind |-> "raise", exc |-> exc, msg |-> msg]
Return(v) == [kind |-> "return", val |-> v]

(***************************************************************************)
(* BigQueryDatabase.__init__ and the object it builds.                     *)
(***************************************************************************)

\* the default of the pool_size parameter
pool_size_default == 10

\* an optional string is falsy when it is None or empty
TruthyOpt(v) == v.some /\ v.val # ""

\* Python's `a or b`
OrElse(a, b) == IF TruthyOpt(a) THEN a ELSE b

\* the settings of the test fixture: BigQuery enabled and fully configured
SettingsConfigured ==
    [BIGQUERY_ENABLED |-> TRUE,
     BIGQUERY_PROJECT_ID |-> Some("test-project"),
     BIGQUERY_DATASET |-> Some("test_dataset"),
     BIGQUERY_CREDENTIALS_PATH |-> Some("fake_credentials.json")]

NoArgs == [project_id |-> None, dataset_id |-> None, credentials_path |-> None]

\* no executor yet / ThreadPoolExecutor(max_workers=pool_size)
NoPool == [created |-> FALSE, max_workers |-> 0, shutdown |-> FALSE,
           job |-> "none"]
ThreadPoolExecutor(max_workers) ==
    [created |-> TRUE, max_workers |-> max_workers, shutdown |-> FALSE,
     job |-> "none"]

\* the object before __init__ has run, next to the settings __init__ reads
DbNew(settings) ==
    [pc |-> "new", settings |-> settings, args |-> NoArgs, pool_size |-> 0,
     project_id |-> None, dataset_id |-> None, credentials_path |-> None,
     credentials |-> FALSE, _pool |-> NoPool, client |-> FALSE,
     dataset |-> FALSE, exc |-> None, close_pc |-> "idle", n_close |-> 0]

ConfigError(d, msg) ==
    [d EXCEPT !.pc = "failed", !.exc = Some(Raise("ValueError", <<msg>>))]

\* lines 33-43: the three attributes, each checked as soon as it is set
ValidateAttributes(d) ==
    LET p == OrElse(d.args.project_id, d.settings.BIGQUERY_PROJECT_ID)
        s == OrElse(d.args.dataset_id, d.settings.BIGQUERY_DATASET)
        c == OrElse(d.args.credentials_path,
                    d.settings.BIGQUERY_CREDENTIALS_PATH)
        d1 == [d EXCEPT !.project_id = p]
        d2 == [d1 EXCEPT !.dataset_id = s]
        d3 == [d2 EXCEPT !.credentials_path = c]
    IN  IF ~TruthyOpt(p)
        THEN ConfigError(d1, "BigQuery project ID is required")
        ELSE IF ~TruthyOpt(s)
        THEN ConfigError(d2, "BigQuery dataset ID is required")
        ELSE IF ~TruthyOpt(c)
        THEN ConfigError(d3, "BigQuery credentials path is required")
        ELSE [d3 EXCEPT !.pc = "credentials"]

\* lines 30-43: the four checks, in the order of the code
ValidateIgnoresEnabled(d) == ValidateAttributes(d)
Validate(d) ==
    IF ~d.settings.BIGQUERY_ENABLED
    THEN ConfigError(d, "BigQuery is not enabled in settings")
    ELSE ValidateAttributes(d)

\* lines 46-49: the service-account file is read
LoadCredentials(d) == [d EXCEPT !.pc = "pool", !.credentials = TRUE]

\* line 50
CreatePool(d) ==
    [d EXCEPT !.pc = "client", !._pool = ThreadPoolExecutor(d.pool_size)]

\* lines 51-55
CreateClient(d) == [d EXCEPT !.pc = "ready", !.client = TRUE, !.dataset = TRUE]

\* BigQueryDatabase(pool_size=pool_size) under the configured settings
DbBuilt(pool_size) ==
    CreateClient(CreatePool(LoadCredentials(Validate(
        [DbNew(SettingsConfigured) EXCEPT !.pc = "validate",
                                          !.pool_size = pool_size]))))

\* BigQueryDatabase() under the configured settings
DbReady == DbBuilt(pool_size_default)

\* ThreadPoolExecutor.submit refuses new work once shutdown has begun
PoolRejects(pool) == pool.shutdown
PoolShutdownError ==
    Raise("RuntimeError", <<"cannot schedule new futures after shutdown">>)

\* close() has returned at least once
Closed(d) == d.n_close >= 1

\* the frame of test_connection or get_table_schema; after_close tells
\* whether close() had returned when the current operation was called
CallIdle ==
    [op |-> "none", pc |-> "idle", table |-> "", failure |-> None,
     arg |-> <<>>, out |-> None, after_close |-> FALSE]

(***************************************************************************)
(* Initial state.  The budget is the default of config.py.                 *)
(***************************************************************************)

Budgets == {1000000000}

ExIdle ==
    [pc |-> "idle", caller |-> "none", query |-> <<>>, bytes |-> None,
     dry |-> "none", real |-> FALSE, out |-> None]

RunIdle ==
    [pc |-> "idle", run_manager |-> FALSE, validate_with_llm |-> FALSE,
     validate_empty_results |-> FALSE, fields |-> <<>>,
     query_response |-> <<>>, result |-> None, retries |-> 0,
     is_valid |-> FALSE, results_str |-> <<>>, complaints |-> <<>>,
     query |-> None, local_results_str |-> <<>>, ret |-> None,
     handler |-> FALSE, ever_valid |-> FALSE,
     question |-> <<>>, prompt |-> None, results |-> None,
     n_llm |-> 0, n_validate |-> 0, n_improve |-> 0, n_tool_error |-> 0]

PagIdle ==
    [pc |-> "idle", query |-> <<>>, page_size |-> 1, max_pages |-> None,
     page_token |-> None, page_count |-> 0, page |-> None,
     batches |-> <<>>, exc |-> None]

WhIdle == [dry |-> 0, real |-> 0, fetch |-> 0, probe |-> 0, last_real |-> None]

\* the coroutines that share one connector on one event loop
NumTasks == 2
Tasks == 1..NumTasks

\* a coroutine that has not been called yet
TaskIdle == [op |-> "none", pc |-> "idle", query |-> <<>>, out |-> None]

\* the two runs of _arun that are in flight on one tool instance
RunIds == {1, 2}

\* the configuration fields of the tool instance (lines 35-37)
ToolDefault ==
    [validate_empty_results |-> TRUE, validate_with_llm |-> TRUE,
     always_limit_query |-> FALSE]

\* task: the coroutine of each task;  gen: the generator object of
\* paginated_query each task holds;  loop: the task whose code the event-loop
\* thread is executing (0: none);  queue, running, finished: the work items
\* of self._pool, named by the task that submitted them;  timer: the timeout
\* the caller of a run has set;  run: the frame of each of the concurrent
\* runs of _arun;  tool: the fields of the tool instance they share
CoIdle ==
    [task |-> [t \in Tasks |-> TaskIdle], gen |-> [t \in Tasks |-> PagIdle],
     loop |-> 0, queue |-> <<>>, running |-> {}, finished |-> {},
     timer |-> "none", run |-> [t \in RunIds |-> RunIdle],
     tool |-> ToolDefault]

Init ==
    /\ settings_max_bytes \in Budgets
    /\ entry = "none"
    /\ ex = ExIdle
    /\ run = RunIdle
    /\ pag = PagIdle
    /\ wh = WhIdle
    /\ db = DbReady
    /\ call = CallIdle
    /\ co = CoIdle

(***************************************************************************)
(* BigQueryDatabase.execute_query                                          *)
(***************************************************************************)

\* the frame of a call of execute_query(query) that has not run yet
ExCalled(caller, query) ==
    [ExIdle EXCEPT !.pc = "dry_run", !.caller = caller, !.query = query]

\* a real (non-dry-run) query job handed to the client
SubmitReal(w, query, via) ==
    [w EXCEPT !.real = @ + 1, !.last_real = Some([query |-> query, via |-> via])]

\* line 68: the cost check
OverBudgetStrict(total_bytes_processed, limit) == total_bytes_processed >= limit
OverBudget(total_bytes_processed, limit) == total_bytes_processed > limit

\* the caller awaits db.execute_query(q)
execute_query_call ==
    /\ entry = "none"
    /\ \E q \in Queries :
        ex' = ExCalled("client", q)
    /\ entry' = "execute_query"
    /\ call' = [CallIdle EXCEPT !.after_close = Closed(db)]
    /\ UNCHANGED <<co, settings_max_bytes, db, run, pag, wh>>

\* lines 64-65: the dry run
execute_query_dry_run ==
    /\ ex.pc = "dry_run"
    /\ LET job == WhDryRun(ex.query)
       IN  /\ wh' = [wh EXCEPT !.dry = @ + 1]
           /\ ex' = IF job.some
                    THEN [ex EXCEPT !.pc = "cost_check", !.dry = "ok",
                                    !.bytes = job]
                    ELSE [ex EXCEPT !.pc = "raised", !.dry = "raised",
                                    !.out = Raise("BadRequest",
                                                  WhErrorText(ex.query))]
    /\ UNCHANGED <<co, settings_max_bytes, db, call, entry, run, pag>>

\* lines 68-74: reject, or submit the real query to the pool
execute_query_cost_check ==
    /\ ex.pc = "cost_check"
    /\ IF OverBudget(ex.bytes.val, settings_max_bytes)
       THEN /\ ex' = [ex EXCEPT !.pc = "raised",
                         !.out = Raise("QueryCostError",
                                       <<"Query would process ",
                                         ToString(ex.bytes.val), " bytes">>)]
            /\ wh' = wh
            /\ db' = db
       ELSE IF PoolRejects(db._pool)
       THEN /\ ex' = [ex EXCEPT !.pc = "raised", !.out = PoolShutdownError]
            /\ wh' = wh
            /\ db' = db
       ELSE /\ ex' = [ex EXCEPT !.pc = "await", !.real = TRUE]
            /\ wh' = SubmitReal(wh, ex.query, "execute_query")
            /\ db' = [db EXCEPT !._pool.job = "pending"]
    /\ UNCHANGED <<co, settings_max_bytes, call, entry, run, pag>>

\* lines 78-90: a worker thread of the pool runs the submitted query job
_execute_query_sync ==
    /\ db._pool.job = "pending"
    /\ db' = [db EXCEPT !._pool.job = "done"]
    /\ UNCHANGED <<co, settings_max_bytes, call, entry, ex, run, pag, wh>>

\* lines 75-76: the future is done and the awaiting caller resumes
execute_query_await ==
    /\ ex.pc = "await"
    /\ db._pool.job = "done"
    /\ db' = [db EXCEPT !._pool.job = "none"]
    /\ LET results == WhResult(ex.query)
       IN  ex' = IF results.some
                 THEN [ex EXCEPT !.pc = "returned",
                                 !.out = Return(RowDicts(results.val))]
                 ELSE [ex EXCEPT !.pc = "raised",
                                 !.out = Raise("BadRequest",
                                               WhErrorText(ex.query))]
    /\ UNCHANGED <<co, settings_max_bytes, call, entry, run, pag, wh>>

NextExecute ==
    \/ execute_query_call
    \/ execute_query_dry_run
    \/ execute_query_cost_check
    \/ _execute_query_sync
    \/ execute_query_await

(***************************************************************************)
(* BigQueryTool: the text-generation capability and its answers.           *)
(***************************************************************************)

\* the backtick character, which a TLA+ string cannot hold
BT == "BACKTICK"

OpenMarker == <<BT, BT, BT, "s", "q", "l">>
CloseMarker == <<BT, BT, BT>>

Fenced(q) == OpenMarker \o q \o CloseMarker

R_Test == OpenMarker \o <<"\n">> \o Q_A \o CloseMarker
R_NoFence == <<"n", "o", "n", "e">>
R_NoClose == OpenMarker \o Q_A
R_NoOpen == <<"h", "e", "r", "e", ":", " ", "A", BT, BT, BT>>
R_PlainFence == <<BT, BT, BT, "\n", "A", "\n", BT, BT, BT>>

\* what the model may answer to the generation and refinement prompts
Responses ==
    {R_Test, Fenced(Q_E), Fenced(Q_B), Fenced(Q_Z), Fenced(Q_X),
     R_NoFence, R_NoClose, R_NoOpen, R_PlainFence}

\* what the model may answer to the selection prompt
FieldResponses == {<<"a", ",", " ", "b">>, <<>>}

V_Yes == <<"V", "a", "l", "i", "d", ":", " ", "y", "e", "s", "\n",
           "R", "e", "a", "s", "o", "n", ":", " ", "o", "k">>
V_No == <<"V", "a", "l", "i", "d", ":", " ", "n", "o", "\n",
          "R", "e", "a", "s", "o", "n", ":", " ", "e", "m", "p", "t", "y">>
V_Neither == <<"f", "i", "n", "e">>
V_Upper == <<"V", "a", "l", "i", "d", ":", " ", "Y", "E", "S">>

\* what the model may answer to the validation prompt
ValidationResponses == {V_Yes, V_No, V_Neither, V_Upper}

\* the exception a failing text-generation call raises
GenerationError == Raise("Exception", <<"llm failed">>)

NO_DATA == <<"n", "o", "_", "d", "a", "t", "a">>
COULD_NOT_PARSE == <<"Could not parse SQL query from response">>
NO_RESULTS == <<"Query returned no results">>
NO_ROWS == <<"Query executed but returned no rows">>

nb_example_rows == 3
MAX_RETRIES == 3

\* query.latest_human_message, a text no operation looks inside
Question == <<"how many events were there yesterday?">>

(***************************************************************************)
(* BigQueryTool: pure helpers.                                             *)
(***************************************************************************)

\* lines 231-236: the query of a response, None when it cannot be parsed
ExtractQuery(response) ==
    LET query_start == Find(response, OpenMarker, 0) + 6
        query_end == Find(response, CloseMarker, query_start)
    IN  IF query_start = -1 \/ query_end = -1
        THEN None
        ELSE Some(Strip(Slice(response, query_start, query_end)))

\* lines 310-314: one pass over the lines; acc = <<is_valid, reason>>
RECURSIVE ParseLines(_, _)
ParseLines(lines, acc) ==
    IF lines = <<>> THEN acc
    ELSE LET line == Head(lines)
             next ==
                 IF StartsWith(line, <<"V", "a", "l", "i", "d", ":">>)
                 THEN <<Contains(Lower(line), <<"y", "e", "s">>), acc[2]>>
                 ELSE IF StartsWith(line, <<"R", "e", "a", "s", "o", "n", ":">>)
                 THEN <<acc[1],
                        Strip(Replace(line,
                                      <<"R", "e", "a", "s", "o", "n", ":">>,
                                      <<>>))>>
                 ELSE acc
         IN  ParseLines(Tail(lines), next)

\* _parse_validation: (is_valid, "", reason)
_parse_validation(response) ==
    LET parsed == ParseLines(Split(Strip(response), "\n"), <<FALSE, <<>>>>)
    IN  <<parsed[1], <<>>, parsed[2]>>

\* lines 247-248: the summary, for a tool whose nb_example_rows is n
SampleSummary(results, n) ==
    LET sample_rows == Slice(results, 0, n)
    IN  <<"total rows: ", ToString(Len(results)), ", first ",
          ToString(Len(sample_rows)), " rows: ", ToString(sample_rows)>>

FormatResults(results) == SampleSummary(results, nb_example_rows)

\* lines 247-248: the locals results and results_str after the formatting
FormattedWithKeepsSample(results, n) ==
    [results |-> Slice(results, 0, n), results_str |-> SampleSummary(results, n)]
FormattedWith(results, n) ==
    [results |-> results, results_str |-> SampleSummary(results, n)]

Formatted(results) == FormattedWith(results, nb_example_rows)

\* _construct_final_response
_construct_final_response(query_response, results_str) ==
    query_response
        \o <<"\n", "\n", "R", "e", "s", "u", "l", "t", "s", ":", " ">>
        \o results_str

\* lines 190-192
FieldListUntrimmed(response) == Join(Split(response, ","), <<",", " ">>)
FieldList(response) ==
    LET parts == Split(response, ",")
    IN  Join([i \in 1..Len(parts) |-> Strip(parts[i])], <<",", " ">>)

\* x or "no_data" for an optional string x
OrNoDataDropped(x) == IF x.some THEN x.val ELSE <<>>
OrNoData(x) == IF x.some /\ Truthy(x.val) THEN x.val ELSE NO_DATA

(***************************************************************************)
(* BigQueryTool._arun and the helpers it awaits.                           *)
(***************************************************************************)

\* lines 164-168: the except clause of _arun
ArunExceptReraises(r, e) ==
    [r EXCEPT !.pc = "done", !.handler = TRUE, !.ret = e]
ArunExcept(r, e) ==
    IF r.run_manager
    THEN [r EXCEPT !.pc = "done", !.handler = TRUE,
                   !.n_tool_error = @ + 1,
                   !.ret = Return(ReprOfException(e))]
    ELSE [r EXCEPT !.pc = "done", !.handler = TRUE, !.ret = e]

\* _avalidate_response returns (is_valid, results_str, complaints) to line 127
ValidatedOnceMore(r, is_valid, results_str, complaints) ==
    [r EXCEPT !.pc = IF is_valid THEN "validated" ELSE "validate",
              !.is_valid = is_valid,
              !.results_str = results_str, !.complaints = complaints,
              !.query = None, !.local_results_str = <<>>,
              !.results = None,
              !.ever_valid = @ \/ is_valid]
Validated(r, is_valid, results_str, complaints) ==
    [r EXCEPT !.pc = "validated", !.is_valid = is_valid,
              !.results_str = results_str, !.complaints = complaints,
              !.query = None, !.local_results_str = <<>>,
              !.results = None,
              !.ever_valid = @ \/ is_valid]

\* lines 267-270: the except clause of _avalidate_response
ValidateExceptReraises(r, e) == ArunExcept(r, e)
ValidateExceptAsksValidator(r, e) == [r EXCEPT !.pc = "llm_validate"]
ValidateExcept(r, e) ==
    Validated([r EXCEPT !.n_tool_error = IF r.run_manager THEN @ + 1 ELSE @],
              FALSE, <<>>, StrOfException(e))

\* line 126: the loop condition
LoopContinuesAlways(result, retries) == retries <= MAX_RETRIES
LoopContinuesOnceMore(result, retries) ==
    ~result.some /\ retries <= MAX_RETRIES + 1
LoopContinues(result, retries) == ~result.some /\ retries <= MAX_RETRIES

\* the caller awaits tool._arun(question)
_arun_call ==
    /\ entry = "none"
    /\ \E rm \in BOOLEAN, vl \in BOOLEAN, ve \in BOOLEAN :
        run' = [RunIdle EXCEPT !.pc = "list_fields", !.run_manager = rm,
                               !.question = Question,
                               !.validate_with_llm = vl,
                               !.validate_empty_results = ve]
    /\ entry' = "_arun"
    /\ UNCHANGED <<co, settings_max_bytes, db, call, ex, pag, wh>>

\* lines 110-113 and _alist_required_fields
_alist_required_fields ==
    /\ run.pc = "list_fields"
    /\ \/ \E response \in FieldResponses :
            run' = [run EXCEPT !.pc = "generate_query", !.n_llm = @ + 1,
                               !.fields = FieldList(response)]
       \/ run' = ArunExcept([run EXCEPT !.n_llm = @ + 1], GenerationError)
    /\ UNCHANGED <<co, settings_max_bytes, db, call, entry, ex, pag, wh>>

\* lines 116-124 and _agenerate_query
_agenerate_query ==
    /\ run.pc = "generate_query"
    /\ \/ \E response \in Responses :
            run' = [run EXCEPT !.pc = "loop", !.n_llm = @ + 1,
                               !.query_response = response,
                               !.result = None, !.retries = 0,
                               !.is_valid = FALSE]
       \/ run' = ArunExcept([run EXCEPT !.n_llm = @ + 1], GenerationError)
    /\ UNCHANGED <<co, settings_max_bytes, db, call, entry, ex, pag, wh>>

\* line 126: enter the loop body or leave the loop
_arun_loop ==
    /\ run.pc = "loop"
    /\ run' = [run EXCEPT !.pc = IF LoopContinues(run.result, run.retries)
                                 THEN "validate" ELSE "finish"]
    /\ UNCHANGED <<co, settings_max_bytes, db, call, entry, ex, pag, wh>>

\* lines 229-239: extract the query and call db.execute_query
_avalidate_response_extract ==
    /\ run.pc = "validate"
    /\ LET query == ExtractQuery(run.query_response)
           r == [run EXCEPT !.n_validate = @ + 1]
       IN  IF ~query.some
           THEN /\ run' = Validated(r, FALSE, <<>>, COULD_NOT_PARSE)
                /\ ex' = ex
           ELSE /\ run' = [r EXCEPT !.pc = "executing", !.query = query]
                /\ ex' = ExCalled("_avalidate_response", query.val)
    /\ UNCHANGED <<co, settings_max_bytes, db, call, entry, pag, wh>>

\* line 240: `if not results`
NoResultsIgnored(results) == FALSE
NoResults(results) == ~Truthy(results)

\* lines 239-265: execute_query has returned or raised
_avalidate_response_results ==
    /\ run.pc = "executing"
    /\ ex.pc \in {"returned", "raised"}
    /\ ex' = ExIdle
    /\ IF ex.out.kind = "raise"
       THEN run' = ValidateExcept(run, ex.out)
       ELSE LET results == ex.out.val
                results_str == Formatted(results).results_str
            IN  IF NoResults(results)
                THEN run' = Validated(run, FALSE, <<>>, NO_RESULTS)
                ELSE IF run.validate_empty_results /\ Len(results) = 0
                THEN run' = Validated(run, FALSE, <<>>, NO_ROWS)
                ELSE IF run.validate_with_llm
                THEN run' = [run EXCEPT !.pc = "llm_validate",
                                        !.results =
                                            Some(Formatted(results).results),
                                        !.local_results_str = results_str]
                ELSE run' = Validated(run, TRUE, results_str, <<>>)
    /\ UNCHANGED <<co, settings_max_bytes, db, call, entry, pag, wh>>

\* lines 251-263: ask the model and parse its verdict
_avalidate_response_llm ==
    /\ run.pc = "llm_validate"
    /\ \/ \E response \in ValidationResponses :
            LET t == _parse_validation(response)
            IN  run' = Validated([run EXCEPT !.n_llm = @ + 1],
                                 t[1], t[2], t[3])
       \/ run' = ValidateExcept([run EXCEPT !.n_llm = @ + 1], GenerationError)
    /\ UNCHANGED <<co, settings_max_bytes, db, call, entry, ex, pag, wh>>

\* lines 133-134: accept the candidate
_arun_accept ==
    /\ run.pc = "validated"
    /\ run.is_valid
    /\ run' = [run EXCEPT !.pc = "loop", !.result = Some(run.query_response)]
    /\ UNCHANGED <<co, settings_max_bytes, db, call, entry, ex, pag, wh>>

\* lines 136-142 and 291-298: what the refinement prompt is formatted with
RefinementInputsStale(r) ==
    [ga4_schema |-> r.fields, question |-> r.question,
     previous_query |-> r.query_response, feedback |-> r.results_str]
RefinementInputs(r) ==
    [ga4_schema |-> r.fields, question |-> r.question,
     previous_query |-> r.query_response, feedback |-> r.complaints]

\* lines 135-142 and 272-299: _aimprove_query is called and sends its prompt
_aimprove_query ==
    /\ run.pc = "validated"
    /\ ~run.is_valid
    /\ run' = [run EXCEPT !.pc = "improving", !.n_improve = @ + 1,
                          !.prompt = Some(RefinementInputs(run))]
    /\ UNCHANGED <<co, settings_max_bytes, db, call, entry, ex, pag, wh>>

\* lines 301 and 135-143: the new candidate arrives, or the call raises
_aimprove_query_response ==
    /\ run.pc = "improving"
    /\ \/ \E response \in Responses :
            run' = [run EXCEPT !.pc = "loop", !.n_llm = @ + 1,
                               !.prompt = None,
                               !.query_response = response,
                               !.retries = @ + 1]
       \/ run' = ArunExcept([run EXCEPT !.n_llm = @ + 1, !.prompt = None],
                            GenerationError)
    /\ UNCHANGED <<co, settings_max_bytes, db, call, entry, ex, pag, wh>>

\* lines 145-162: the value _arun returns after the loop
ArunReturn(r) ==
    IF r.run_manager /\ r.is_valid
    THEN Return(_construct_final_response(r.query_response, r.results_str))
    ELSE Return(OrNoData(r.result))

\* lines 145-162: _arun returns
_arun_finish ==
    /\ run.pc = "finish"
    /\ run' = [run EXCEPT !.pc = "done", !.ret = ArunReturn(run)]
    /\ UNCHANGED <<co, settings_max_bytes, db, call, entry, ex, pag, wh>>

NextRun ==
    \/ _arun_call
    \/ _alist_required_fields
    \/ _agenerate_query
    \/ _arun_loop
    \/ _avalidate_response_extract
    \/ _avalidate_response_results
    \/ _avalidate_response_llm
    \/ _arun_accept
    \/ _aimprove_query
    \/ _aimprove_query_response
    \/ _arun_finish

(***************************************************************************)
(* BigQueryDatabase.paginated_query, an async generator.  One action is    *)
(* one __anext__ of its consumer: the code from one yield to the next.     *)
(***************************************************************************)

MaxPageSize == 3
MaxMaxPages == 3
\* page fetches followed in one traversal
MaxFetches == 8

PageSizes == 1..MaxPageSize
MaxPagesChoices == {None} \cup {Some(n) : n \in 0..MaxMaxPages}

\* query_job.result(page_size, page_token): one page of the result and the
\* token of the page after it, None on the last page
WhPage(q, page_size, page_token) ==
    LET all == WhResult(q).val
        start == IF page_token.some THEN page_token.val ELSE 0
    IN  [rows |-> Slice(all, start, start + page_size),
         next_page_token |-> IF \/ start + page_size < Len(all)
                                \/ q \in EndlessQueries
                             THEN Some(start + page_size)
                             ELSE None]

\* line 136: the test that ends the traversal
StopAfterNever(page_token, max_pages, page_count) ==
    max_pages.some /\ max_pages.val # 0 /\ page_count >= max_pages.val
StopAfterZeroCaps(page_token, max_pages, page_count) ==
    \/ ~page_token.some
    \/ (max_pages.some /\ page_count >= max_pages.val)
StopAfter(page_token, max_pages, page_count) ==
    \/ ~page_token.some
    \/ (max_pages.some /\ max_pages.val # 0 /\ page_count >= max_pages.val)

\* line 135: the token the next fetch is made with
NextTokenStale(page) == None
NextToken(page) == page.next_page_token

\* lines 129-133: fetch one page and yield its rows
FetchAndYield(g, page_token, page_count) ==
    LET page == WhPage(g.query, g.page_size, page_token)
    IN  [g EXCEPT !.pc = "suspended", !.page_token = page_token,
                  !.page_count = page_count, !.page = Some(page),
                  !.batches = Append(@, RowDicts(page.rows))]

\* the caller makes the generator; none of its code runs yet
paginated_query_call ==
    /\ entry = "none"
    /\ \E q \in Queries \cup EndlessQueries, page_size \in PageSizes,
          max_pages \in MaxPagesChoices :
        pag' = [PagIdle EXCEPT !.pc = "created", !.query = q,
                               !.page_size = page_size,
                               !.max_pages = max_pages]
    /\ entry' = "paginated_query"
    /\ call' = [CallIdle EXCEPT !.after_close = Closed(db)]
    /\ UNCHANGED <<co, settings_max_bytes, db, ex, run, wh>>

\* the first __anext__: lines 124-133
paginated_query_first ==
    /\ pag.pc = "created"
    /\ IF WhResult(pag.query).some
       THEN /\ pag' = FetchAndYield(pag, None, 0)
            /\ wh' = [SubmitReal(wh, pag.query, "paginated_query")
                        EXCEPT !.fetch = @ + 1]
       ELSE /\ pag' = [pag EXCEPT !.pc = "raised",
                          !.exc = Raise("BadRequest", WhErrorText(pag.query))]
            /\ wh' = [SubmitReal(wh, pag.query, "paginated_query")
                        EXCEPT !.fetch = @ + 1]
    /\ UNCHANGED <<co, settings_max_bytes, db, call, entry, ex, run>>

\* a later __anext__: lines 135-138, then lines 129-133
paginated_query_next ==
    /\ pag.pc = "suspended"
    /\ LET page_token == NextToken(pag.page.val)
       IN  IF StopAfter(page_token, pag.max_pages, pag.page_count)
           THEN /\ pag' = [pag EXCEPT !.pc = "exhausted",
                                      !.page_token = page_token]
                /\ wh' = wh
           ELSE /\ wh.fetch < MaxFetches
                /\ pag' = FetchAndYield(pag, page_token, pag.page_count + 1)
                /\ wh' = [wh EXCEPT !.fetch = @ + 1]
    /\ UNCHANGED <<co, settings_max_bytes, db, call, entry, ex, run>>

NextPaginate ==
    \/ paginated_query_call
    \/ paginated_query_first
    \/ paginated_query_next

(***************************************************************************)
(* BigQueryDatabase.test_connection and get_table_schema: synchronous      *)
(* methods, one action each.                                               *)
(***************************************************************************)

\* what client.query("SELECT 1").result() can raise
ConnectionFailures ==
    {Raise("ServiceUnavailable", <<"503 backend unavailable">>),
     Raise("Forbidden", <<"403 access denied">>),
     Raise("RefreshError", <<"invalid credentials">>)}

\* lines 94-100: the try and its except clause
ProbeOutcomeReraises(failure) ==
    IF failure.some THEN failure.val ELSE Return(TRUE)
ProbeOutcome(failure) ==
    IF failure.some THEN Return(FALSE) ELSE Return(TRUE)

\* the caller calls db.test_connection()
test_connection ==
    /\ entry = "none"
    /\ entry' = "test_connection"
    /\ \E failure \in {None} \cup {Some(f) : f \in ConnectionFailures} :
        call' = [CallIdle EXCEPT !.op = "test_connection", !.pc = "done",
                                 !.failure = failure,
                                 !.out = Some(ProbeOutcome(failure)),
                                 !.after_close = Closed(db)]
    /\ wh' = [wh EXCEPT !.probe = @ + 1]
    /\ UNCHANGED <<co, settings_max_bytes, db, ex, run, pag>>

\* the tables of the dataset and table.schema of each
TableNames == {"events", "users", "missing"}
WhSchema(table_name) ==
    CASE table_name = "events" ->
           Some(<<[name |-> "event_name", field_type |-> "STRING",
                   mode |-> "NULLABLE", description |-> "name of the event"],
                  [name |-> "event_timestamp", field_type |-> "INTEGER",
                   mode |-> "REQUIRED", description |-> "None"]>>)
      [] table_name = "users" -> Some(<<>>)
      [] OTHER -> None

\* lines 105-115: the dictionary built from table.schema
SchemaDict(schema) ==
    [fields |-> [i \in 1..Len(schema) |->
                    [name |-> schema[i].name, type |-> schema[i].field_type,
                     mode |-> schema[i].mode,
                     description |-> schema[i].description]]]

\* the caller calls db.get_table_schema(table_name)
get_table_schema ==
    /\ entry = "none"
    /\ entry' = "get_table_schema"
    /\ \E table_name \in TableNames :
        LET schema == WhSchema(table_name)
        IN  call' = [CallIdle EXCEPT
                       !.op = "get_table_schema", !.pc = "done",
                       !.table = table_name,
                       !.out = Some(IF schema.some
                                    THEN Return(SchemaDict(schema.val))
                                    ELSE Raise("NotFound",
                                               <<"404 Not found: Table ",
                                                 table_name>>)),
                       !.after_close = Closed(db)]
    /\ UNCHANGED <<co, settings_max_bytes, db, ex, run, pag, wh>>

NextCall ==
    \/ test_connection
    \/ get_table_schema

(***************************************************************************)
(* BigQueryDatabase.close, called from any thread at any time.             *)
(***************************************************************************)

\* calls of close() followed in one behaviour
MaxCloses == 2

\* ThreadPoolExecutor.shutdown: no new work is accepted from now on
ShutdownToggles(pool) == [pool EXCEPT !.shutdown = ~@]
Shutdown(pool) == [pool EXCEPT !.shutdown = TRUE]

\* shutdown(wait=True) returns once the workers have run all submitted work
ShutdownReturnsAtOnce(pool) == TRUE
ShutdownReturns(pool) == pool.job # "pending"

\* lines 142-143: close() begins to shut the pool down
close_call ==
    /\ db.pc = "ready"
    /\ db.close_pc = "idle"
    /\ db.n_close < MaxCloses
    /\ db' = [db EXCEPT !.close_pc = "waiting",
                        !._pool = IF db._pool.created
                                  THEN Shutdown(@) ELSE @]
    /\ UNCHANGED <<co, settings_max_bytes, call, entry, ex, run, pag, wh>>

\* line 143: shutdown(wait=True) returns, and close() with it
close_return ==
    /\ db.close_pc = "waiting"
    /\ ShutdownReturns(db._pool)
    /\ db' = [db EXCEPT !.close_pc = "idle", !.n_close = @ + 1]
    /\ UNCHANGED <<co, settings_max_bytes, call, entry, ex, run, pag, wh>>

NextClose ==
    \/ close_call
    \/ close_return

Next == NextExecute \/ NextRun \/ NextPaginate \/ NextCall

Spec == Init /\ [][Next]_vars

\* the event loop keeps running a started _arun task until it returns or raises
FairSpec == Spec /\ WF_vars(entry = "_arun" /\ Next)

(***************************************************************************)
(* The construction of a connector, step by step, under any settings.      *)
(***************************************************************************)

\* values of an optional setting and of an optional argument
SettingValues(configured) == {None, Some(""), configured}
ArgValues == {None, Some(""), Some("arg")}
PoolSizes == {1, pool_size_default}

SettingsChoices ==
    {[BIGQUERY_ENABLED |-> en, BIGQUERY_PROJECT_ID |-> p,
      BIGQUERY_DATASET |-> s, BIGQUERY_CREDENTIALS_PATH |-> c] :
        en \in BOOLEAN,
        p \in SettingValues(SettingsConfigured.BIGQUERY_PROJECT_ID),
        s \in SettingValues(SettingsConfigured.BIGQUERY_DATASET),
        c \in SettingValues(SettingsConfigured.BIGQUERY_CREDENTIALS_PATH)}

InitNew ==
    /\ settings_max_bytes \in Budgets
    /\ entry = "none"
    /\ ex = ExIdle
    /\ run = RunIdle
    /\ pag = PagIdle
    /\ wh = WhIdle
    /\ db \in {DbNew(s) : s \in SettingsChoices}
    /\ call = CallIdle
    /\ co = CoIdle

\* BigQueryDatabase(project_id, dataset_id, credentials_path, pool_size)
__init__ ==
    /\ db.pc = "new"
    /\ \E p \in ArgValues, s \in ArgValues, c \in ArgValues,
          pool_size \in PoolSizes :
        db' = [db EXCEPT !.pc = "validate",
                         !.args = [project_id |-> p, dataset_id |-> s,
                                   credentials_path |-> c],
                         !.pool_size = pool_size]
    /\ UNCHANGED <<co, settings_max_bytes, call, entry, ex, run, pag, wh>>

\* lines 30-43
__init___validate ==
    /\ db.pc = "validate"
    /\ db' = Validate(db)
    /\ UNCHANGED <<co, settings_max_bytes, call, entry, ex, run, pag, wh>>

\* lines 46-49: the file is read, or reading it raises
__init___credentials ==
    /\ db.pc = "credentials"
    /\ \/ db' = LoadCredentials(db)
       \/ db' = [db EXCEPT !.pc = "failed",
                           !.exc = Some(Raise("FileNotFoundError",
                                              <<"No such file">>))]
    /\ UNCHANGED <<co, settings_max_bytes, call, entry, ex, run, pag, wh>>

\* line 50
__init___pool ==
    /\ db.pc = "pool"
    /\ db' = CreatePool(db)
    /\ UNCHANGED <<co, settings_max_bytes, call, entry, ex, run, pag, wh>>

\* lines 51-55
__init___client ==
    /\ db.pc = "client"
    /\ db' = CreateClient(db)
    /\ UNCHANGED <<co, settings_max_bytes, call, entry, ex, run, pag, wh>>

NextNew ==
    \/ __init__
    \/ __init___validate
    \/ __init___credentials
    \/ __init___pool
    \/ __init___client

NewSpec == InitNew /\ [][NextNew]_vars

(***************************************************************************)
(* BigQueryTool._parse_validation applied to any text of a few tokens.     *)
(***************************************************************************)

\* tokens a validation answer is made of, and the longest answer drawn
MaxTokens == 5
T_Valid == <<"V", "a", "l", "i", "d", ":">>
T_Reason == <<"R", "e", "a", "s", "o", "n", ":">>
Tokens == {T_Valid, T_Reason, <<" ", "Y", "e", "s">>, <<" ", "n", "o">>,
           <<"\n">>}

RECURSIVE Flatten(_)
Flatten(parts) ==
    IF parts = <<>> THEN <<>> ELSE Head(parts) \o Flatten(Tail(parts))

AnswerTexts ==
    {Flatten(parts) :
        parts \in UNION {[1..n -> Tokens] : n \in 0..MaxTokens}}

InitParse ==
    /\ settings_max_bytes \in Budgets
    /\ entry = "none"
    /\ ex = ExIdle
    /\ run = RunIdle
    /\ pag = PagIdle
    /\ wh = WhIdle
    /\ db = DbReady
    /\ call \in {[CallIdle EXCEPT !.op = "_parse_validation",
                                  !.pc = "called", !.arg = text] :
                     text \in AnswerTexts}
    /\ co = CoIdle

\* await self._parse_validation(validation_response)
_parse_validation_call ==
    /\ call.op = "_parse_validation"
    /\ call.pc = "called"
    /\ call' = [call EXCEPT !.pc = "done",
                            !.out = Some(Return(_parse_validation(call.arg)))]
    /\ UNCHANGED <<co, settings_max_bytes, db, entry, ex, run, pag, wh>>

ParseSpec == InitParse /\ [][_parse_validation_call]_vars

(***************************************************************************)
(* The formatting of lines 247-248 applied to any result of a few rows,    *)
(* for a tool configured with any small nb_example_rows.                   *)
(***************************************************************************)

\* the largest nb_example_rows drawn
MaxSample == 4

RowChoices == {Dict(Items(WhRow(1))), Dict(Items(WhRow(2)))}
ResultChoices == UNION {[1..k -> RowChoices] : k \in 0..MaxRows}

InitFormat ==
    /\ settings_max_bytes \in Budgets
    /\ entry = "none"
    /\ ex = ExIdle
    /\ run = RunIdle
    /\ pag = PagIdle
    /\ wh = WhIdle
    /\ db = DbReady
    /\ call \in {[CallIdle EXCEPT !.op = "format", !.pc = "called",
                                  !.arg = [results |-> results, n |-> n]] :
                     results \in ResultChoices, n \in 0..MaxSample}
    /\ co = CoIdle

\* lines 247-248 run on the rows execute_query returned
format_results ==
    /\ call.op = "format"
    /\ call.pc = "called"
    /\ call' = [call EXCEPT
                   !.pc = "done",
                   !.out = Some(Return(FormattedWith(call.arg.results,
                                                     call.arg.n)))]
    /\ UNCHANGED <<co, settings_max_bytes, db, entry, ex, run, pag, wh>>

FormatSpec == InitFormat /\ [][format_results]_vars

\* every entry point, next to callers of close()
CloseSpec == Init /\ [][Next \/ NextClose]_vars

\* traversals alone, by a consumer that keeps asking for the next batch
PaginateSpec ==
    /\ Init
    /\ [][NextPaginate]_vars
    /\ WF_vars(paginated_query_first \/ paginated_query_next)

(***************************************************************************)
(* Vocabulary of the properties.                                           *)
(***************************************************************************)

\* how a run has ended
Outcome ==
    IF run.pc # "done" THEN "RUNNING"
    ELSE IF run.handler THEN "FAILED"
    ELSE IF run.result.some THEN "DONE"
    ELSE "EXHAUSTED"

\* the fencing convention: the text between the first opening marker and the
\* next closing marker after it, without surrounding whitespace; None when
\* either marker is missing
FencedQuery(response) ==
    LET open == Find(response, OpenMarker, 0)
        close == Find(response, CloseMarker, open + Len(OpenMarker))
    IN  IF open = -1 \/ close = -1
        THEN None
        ELSE Some(Strip(Slice(response, open + Len(OpenMarker), close)))

\* the dry run of q reports more bytes than the budget
Expensive(q) ==
    WhDryRun(q).some /\ WhDryRun(q).val > settings_max_bytes

RECURSIVE Concat(_)
Concat(batches) ==
    IF batches = <<>> THEN <<>> ELSE Head(batches) \o Concat(Tail(batches))

(***************************************************************************)
(* Properties.                                                             *)
(***************************************************************************)

\* C1: in every call of execute_query the real query is submitted only after
\* a dry run that succeeded, and, once the cost check has run, it has been
\* submitted iff the estimate is at most the budget (equality admits); an
\* estimate above the budget ends the call with QueryCostError and without a
\* real query.
C1_CostGate ==
    LET decided == ex.dry = "ok" /\ ex.pc \in {"await", "returned", "raised"}
    IN  /\ ex.real =>
            /\ ex.dry = "ok"
            /\ ex.bytes = WhDryRun(ex.query)
            /\ wh.dry >= 1
            /\ wh.last_real = Some([query |-> ex.query, via |-> "execute_query"])
        /\ decided => (ex.real <=> ex.bytes.val <= settings_max_bytes)
        /\ (decided /\ ex.bytes.val > settings_max_bytes) =>
            /\ ex.pc = "raised"
            /\ ex.out.exc = "QueryCostError"
        /\ entry = "execute_query" => wh.real = (IF ex.real THEN 1 ELSE 0)

\* C1 witness: a call whose estimate equals the budget has run the real query
C1_Witness ==
    /\ entry = "execute_query"
    /\ ex.pc = "returned"
    /\ ex.bytes.val = settings_max_bytes
    /\ wh.real = 1

\* C2: no real query has been issued, by any entry point, for a query string
\* whose dry-run estimate exceeds the budget.
C2_NoExpensiveExecution ==
    wh.last_real.some => ~Expensive(wh.last_real.val.query)

\* C3: a run makes at most MAX_RETRIES repair calls and its retry counter
\* never exceeds MAX_RETRIES.
C3_RetryBound ==
    /\ run.n_improve <= MAX_RETRIES
    /\ run.retries <= MAX_RETRIES

\* C4: a started run always ends, and a run that ends without any validation
\* having reported valid and without an exception reaching the except clause
\* of _arun ends EXHAUSTED: it returns exactly "no_data" and raises nothing.
C4_Exhausted ==
    /\ [](run.pc = "done" /\ ~run.ever_valid /\ ~run.handler =>
            /\ Outcome = "EXHAUSTED"
            /\ run.ret = Return(NO_DATA))
    /\ ((entry = "_arun") ~> (run.pc = "done"))

\* C4 witness: a run none of whose candidates could be parsed has ended with
\* "no_data" without ever calling the warehouse
C4_Witness ==
    /\ run.pc = "done"
    /\ ~run.ever_valid
    /\ ~run.handler
    /\ run.complaints = COULD_NOT_PARSE
    /\ wh.dry = 0
    /\ run.ret = Return(NO_DATA)

\* C5: once a validation has reported valid, the run makes no further
\* text-generation call, repair, validation, dry run or real execution, and it
\* ends DONE; a run whose first candidate validates ends with no repair and
\* exactly one warehouse execution.
C5_StopAtFirstValid ==
    /\ [][run.ever_valid =>
            /\ run'.n_llm = run.n_llm
            /\ run'.n_improve = run.n_improve
            /\ run'.n_validate = run.n_validate
            /\ wh'.dry = wh.dry
            /\ wh'.real = wh.real]_vars
    /\ [](run.pc = "done" /\ run.ever_valid =>
            /\ Outcome = "DONE"
            /\ run.ret.kind = "return"
            /\ run.result = Some(run.query_response))
    /\ [](run.pc = "done" /\ run.ever_valid /\ run.n_validate = 1 =>
            /\ run.n_improve = 0
            /\ run.retries = 0
            /\ wh.real = 1)

\* C5 witness: a run has ended DONE on its first candidate
C5_Witness ==
    /\ Outcome = "DONE"
    /\ run.n_validate = 1
    /\ run.n_improve = 0
    /\ wh.real = 1

\* C6: a run ends DONE only on a candidate whose query comes from a
\* well-formed fenced block, passed the cost check, was really executed
\* without error and returned at least one row; and a validation of a fenced
\* candidate whose query fails to run, is too expensive or returns no row
\* reports invalid with the reason of that failure.
C6_AcceptedIsSound ==
    /\ Outcome = "DONE" =>
        LET q == FencedQuery(run.result.val)
        IN  /\ q.some
            /\ WhDryRun(q.val).some
            /\ ~Expensive(q.val)
            /\ wh.last_real = Some([query |-> q.val, via |-> "execute_query"])
            /\ WhResult(q.val).some
            /\ Len(WhResult(q.val).val) >= 1
    /\ run.pc = "validated" /\ FencedQuery(run.query_response).some =>
        LET q == FencedQuery(run.query_response).val
        IN  /\ ~WhDryRun(q).some =>
                ~run.is_valid /\ run.complaints = WhErrorText(q)
            /\ Expensive(q) =>
                /\ ~run.is_valid
                /\ run.complaints = <<"Query would process ",
                                      ToString(WhDryRun(q).val), " bytes">>
            /\ (WhDryRun(q).some /\ ~Expensive(q) /\ ~WhResult(q).some) =>
                ~run.is_valid /\ run.complaints = WhErrorText(q)
            /\ (WhDryRun(q).some /\ ~Expensive(q) /\ WhResult(q).some
                    /\ Len(WhResult(q).val) = 0) =>
                ~run.is_valid /\ run.complaints = NO_RESULTS

\* C7: a validation sends to the warehouse only the text between the first
\* opening marker and the next closing marker of the candidate; a candidate
\* with no opening marker, or no closing marker after it, is reported invalid
\* with the could-not-parse reason and nothing is sent to the warehouse.
C7_ExtractionIsExact ==
    LET q == FencedQuery(run.query_response)
    IN  /\ run.pc \in {"executing", "llm_validate"} => q.some
        /\ run.pc = "executing" => ex.query = q.val
        /\ (run.pc = "validated" /\ ~q.some) =>
            /\ ~run.is_valid
            /\ run.complaints = COULD_NOT_PARSE

\* the number of pages the warehouse holds for the traversal
ServerPages ==
    LET n == Len(WhResult(pag.query).val)
    IN  IF n = 0 THEN 1 ELSE (n + pag.page_size - 1) \div pag.page_size

\* the token the warehouse hands out before its i-th page
TokenBefore(i) == IF i = 1 THEN None ELSE Some((i - 1) * pag.page_size)

\* C8: a traversal with max_pages = N >= 1 yields at most N batches, and
\* never more batches than the warehouse has pages.
C8_MaxPagesCap ==
    (entry = "paginated_query" /\ WhResult(pag.query).some
        /\ pag.query \in Queries) =>
        /\ Len(pag.batches) <= ServerPages
        /\ (pag.max_pages.some /\ pag.max_pages.val >= 1) =>
               Len(pag.batches) <= pag.max_pages.val

\* C9: in a traversal without max_pages the batches yielded so far,
\* concatenated, are a prefix of the full result in warehouse order, every
\* page is fetched with the token the page before it returned, and when the
\* traversal ends the concatenation is the full result.
C9_Complete ==
    (entry = "paginated_query" /\ ~pag.max_pages.some
        /\ pag.pc \in {"suspended", "exhausted"}) =>
        LET full == RowDicts(WhResult(pag.query).val)
            got == Concat(pag.batches)
        IN  /\ Len(got) <= Len(full)
            /\ got = SubSeq(full, 1, Len(got))
            /\ pag.pc = "suspended" =>
                /\ pag.page_token = TokenBefore(Len(pag.batches))
                /\ pag.page.val =
                       WhPage(pag.query, pag.page_size, pag.page_token)
            /\ pag.pc = "exhausted" => got = full

\* C9 witness: a traversal of three or more pages has ended
C9_Witness ==
    /\ pag.pc = "exhausted"
    /\ ~pag.max_pages.some
    /\ Len(pag.batches) >= 3
    /\ Len(Concat(pag.batches)) = MaxRows

\* C10: the page fetches made equal the batches yielded, the i-th batch is
\* the i-th page of the warehouse, and once a page has come without a
\* continuation token no further fetch is made and no further batch yielded.
C10_FetchPerBatch ==
    /\ []((entry = "paginated_query" /\ pag.pc \in {"suspended", "exhausted"}) =>
            /\ wh.fetch = Len(pag.batches)
            /\ \A i \in 1..Len(pag.batches) :
                  pag.batches[i] =
                      RowDicts(WhPage(pag.query, pag.page_size,
                                      TokenBefore(i)).rows))
    /\ [][(pag.page.some /\ ~pag.page.val.next_page_token.some) =>
            /\ wh'.fetch = wh.fetch
            /\ pag'.batches = pag.batches]_vars

\* C10 witness: two server pages have given exactly two batches in two fetches
C10_Witness ==
    /\ pag.pc = "exhausted"
    /\ ServerPages = 2
    /\ Len(pag.batches) = 2
    /\ wh.fetch = 2

ExecutionErrors == {"QueryCostError", "BadRequest"}

\* C12: when execute_query raises a cost rejection or a warehouse error
\* while a candidate is validated, the validation step returns
\* (False, "", str(e)) instead of raising, the next step of the run is the
\* repair call, and no run ever ends with such an exception.
C12_ExecutionErrorsRepair ==
    /\ [][(run.pc = "executing" /\ ex.pc = "raised"
             /\ ex.out.exc \in ExecutionErrors) =>
            /\ run'.pc = "validated"
            /\ ~run'.is_valid
            /\ run'.results_str = <<>>
            /\ run'.complaints = StrOfException(ex.out)
            /\ ~run'.handler]_vars
    /\ [][(run.pc = "validated" /\ ~run.is_valid) =>
            run'.n_improve = run.n_improve + 1]_vars
    /\ [](run.handler =>
            /\ run.ret.kind = "raise" => run.ret.exc \notin ExecutionErrors
            /\ run.ret.kind = "return" =>
                   run.ret.val = ReprOfException(GenerationError))

\* C12 witness: a cost rejection has been turned into a failed validation
\* after one repair already
C12_Witness ==
    /\ run.pc = "validated"
    /\ ~run.is_valid
    /\ run.retries >= 1
    /\ run.complaints = <<"Query would process ", "2000000000", " bytes">>

\* a step in which a call of the text-generation capability raised: the call
\* is counted and the step ends either in _arun's except clause or in a
\* validation whose reason is the text of the exception
GenerationRaised ==
    /\ run'.n_llm = run.n_llm + 1
    /\ \/ ~run.handler /\ run'.handler
       \/ /\ run'.pc = "validated"
          /\ run'.complaints = StrOfException(GenerationError)

\* C13: a step in which the text-generation capability raises ends the run
\* FAILED in that very step, and a FAILED run calls neither the capability
\* nor the warehouse again.
C13_GenerationErrorIsFatal ==
    /\ [][GenerationRaised => (run'.pc = "done" /\ run'.handler)]_vars
    /\ [][run.handler => (run'.n_llm = run.n_llm /\ wh' = wh)]_vars

\* the separator between the query text and the results summary
ResultsSeparator == <<"\n", "\n", "R", "e", "s", "u", "l", "t", "s", ":", " ">>

\* the rows of the last real execution of the run: the validating one,
\* once the run is DONE
ValidatingRows == WhResult(wh.last_real.val.query).val

\* C15: a run that ends DONE returns the accepted query text, then the
\* separator, then a summary that holds the total row count of the
\* validating execution; a run that ends EXHAUSTED returns "no_data".
C15_ReturnedText ==
    /\ Outcome = "DONE" =>
        /\ run.ret.kind = "return"
        /\ LET head == run.result.val \o ResultsSeparator
               summary == Slice(run.ret.val, Len(head), Len(run.ret.val))
           IN  /\ StartsWith(run.ret.val, head)
               /\ Contains(summary, <<"total rows: ",
                                      ToString(Len(ValidatingRows))>>)
    /\ Outcome = "EXHAUSTED" => run.ret = Return(NO_DATA)

\* C14: when execute_query fails on a closed connector while a candidate is
\* validated, the run ends FAILED in the step that sees the exception, with
\* that exception, and without a further text-generation call.
C14_ConnectorErrorIsFatal ==
    [][(run.pc = "executing" /\ ex.pc = "raised"
          /\ ex.out = PoolShutdownError) =>
         /\ run'.pc = "done"
         /\ run'.handler
         /\ run'.ret \in {PoolShutdownError,
                          Return(ReprOfException(PoolShutdownError))}
         /\ run'.n_llm = run.n_llm
         /\ run'.n_improve = run.n_improve]_vars

\* the exceptions taken for the error of a closed connector
ClosedErrors == {"ClosedConnectorError", "RuntimeError"}

\* C16: an operation called after close() has returned does not succeed: it
\* raises the error of a closed connector.
C16_ClosedConnectorFails ==
    call.after_close =>
        /\ (entry = "execute_query" /\ ex.pc \in {"returned", "raised"}) =>
               (ex.out.kind = "raise" /\ ex.out.exc \in ClosedErrors)
        /\ (entry = "paginated_query" /\ pag.pc # "created") =>
               (pag.pc = "raised" /\ pag.exc.exc \in ClosedErrors)
        /\ (entry = "get_table_schema") =>
               (call.out.val.kind = "raise"
                  /\ call.out.val.exc \in ClosedErrors)

\* C17: a call of close() made after close() has returned changes nothing
\* of the connector, neither when it begins nor when it returns; it can
\* always return; and a closed pool stays shut down.
C17_CloseIdempotent ==
    /\ [][(Closed(db) /\ db'.close_pc # db.close_pc) =>
            /\ db'._pool = db._pool
            /\ db'.pc = db.pc
            /\ db'.client = db.client
            /\ db'.exc = db.exc]_vars
    /\ []((Closed(db) /\ db.close_pc = "waiting") => ENABLED close_return)
    /\ [](Closed(db) => (db._pool.shutdown /\ db.pc = "ready"))

\* C17 witness: close() has returned twice
C17_Witness ==
    /\ db.n_close >= 2
    /\ db._pool.shutdown

\* what a submitted query job gives its caller
JobOutcome(q) ==
    IF WhResult(q).some
    THEN Return(RowDicts(WhResult(q).val))
    ELSE Raise("BadRequest", WhErrorText(q))

\* C18: close() does not return while a query job submitted by execute_query
\* is queued or running; such a job is never dropped but runs to its end;
\* and the caller that awaits it can always resume and receives the job's
\* outcome, whether close() has been called or not.
C18_CloseWaitsForWork ==
    /\ [][(db.close_pc = "waiting" /\ db'.close_pc = "idle") =>
            db._pool.job # "pending"]_vars
    /\ [][db._pool.job = "pending" =>
            db'._pool.job \in {"pending", "done"}]_vars
    /\ [][db._pool.job = "done" =>
            \/ db'._pool.job = "done" /\ ex' = ex
            \/ ex'.out = JobOutcome(ex.query)]_vars
    /\ []((db._pool.job # "none") <=> (ex.pc = "await"))
    /\ [](db._pool.job = "done" => ENABLED execute_query_await)

\* C18 witness: close() is waiting for a query job that has not finished
C18_Witness ==
    /\ db.close_pc = "waiting"
    /\ db._pool.job = "pending"
    /\ ex.pc = "await"

\* C19: test_connection returns True when its query succeeded and False
\* when the query failed in any way; it never raises.
C19_ProbeNeverRaises ==
    entry = "test_connection" =>
        /\ call.out.some
        /\ call.out.val.kind = "return"
        /\ call.out.val.val = ~call.failure.some

\* C19 witness: the query of test_connection failed and False was returned
C19_Witness ==
    /\ entry = "test_connection"
    /\ call.failure.some
    /\ call.out = Some(Return(FALSE))
    /\ wh.probe = 1

\* neither the argument nor the setting gives a value
Missing(arg, setting) == ~TruthyOpt(arg) /\ ~TruthyOpt(setting)

\* the configuration a constructor call runs under is incomplete
Misconfigured ==
    \/ ~db.settings.BIGQUERY_ENABLED
    \/ Missing(db.args.project_id, db.settings.BIGQUERY_PROJECT_ID)
    \/ Missing(db.args.dataset_id, db.settings.BIGQUERY_DATASET)
    \/ Missing(db.args.credentials_path,
               db.settings.BIGQUERY_CREDENTIALS_PATH)

\* C20: a constructor call under an incomplete configuration (BigQuery
\* disabled, or project, dataset or credentials path given neither as
\* argument nor in the settings) ends in ValueError once its checks have
\* run, and then no credentials have been loaded and neither pool nor client
\* exists; under a complete configuration no ValueError is raised.
C20_ConfigFailsFast ==
    db.pc \notin {"new", "validate"} =>
        /\ Misconfigured =>
            /\ db.pc = "failed"
            /\ db.exc.val.exc = "ValueError"
            /\ ~db.credentials
            /\ ~db._pool.created
            /\ ~db.client
        /\ ~Misconfigured =>
            (db.pc = "failed" => db.exc.val.exc # "ValueError")

\* C20 witness: BigQuery is enabled, a project is given as argument, but no
\* dataset is given anywhere, and the constructor has failed
C20_Witness ==
    /\ db.pc = "failed"
    /\ db.settings.BIGQUERY_ENABLED
    /\ TruthyOpt(db.args.project_id)
    /\ ~TruthyOpt(db.settings.BIGQUERY_PROJECT_ID)
    /\ db.exc = Some(Raise("ValueError",
                           <<"BigQuery dataset ID is required">>))
    /\ ~db.credentials /\ ~db._pool.created /\ ~db.client

\* the lines of an answer that begin with a marker
MarkedLines(text, marker) ==
    LET lines == Split(Strip(text), "\n")
    IN  {lines[i] : i \in {j \in 1..Len(lines) : StartsWith(lines[j], marker)}}

\* C21: _parse_validation returns, for any text, (is_valid, "", reason)
\* where is_valid holds iff a line beginning with "Valid:" contains "yes" in
\* any case, and reason is the text after "Reason:" of a line beginning with
\* it, without surrounding whitespace, or empty when there is no such line.
C21_ParsedVerdict ==
    (call.op = "_parse_validation" /\ call.pc = "done") =>
        LET out == call.out.val.val
            valid_lines == MarkedLines(call.arg, T_Valid)
            reason_lines == MarkedLines(call.arg, T_Reason)
        IN  /\ call.out.val.kind = "return"
            /\ out[1] <=> \E line \in valid_lines :
                              Contains(Lower(line), <<"y", "e", "s">>)
            /\ out[2] = <<>>
            /\ IF reason_lines = {}
               THEN out[3] = <<>>
               ELSE \E line \in reason_lines :
                        out[3] = Strip(Slice(line, Len(T_Reason), Len(line)))

\* the order of the steps of a run: from each position, the next ones
RunOrder ==
    {<<"idle", "list_fields">>,
     <<"list_fields", "generate_query">>, <<"list_fields", "done">>,
     <<"generate_query", "loop">>, <<"generate_query", "done">>,
     <<"loop", "validate">>, <<"loop", "finish">>,
     <<"validate", "executing">>, <<"validate", "validated">>,
     <<"executing", "llm_validate">>, <<"executing", "validated">>,
     <<"llm_validate", "validated">>,
     <<"validated", "loop">>, <<"validated", "improving">>,
     <<"improving", "loop">>, <<"improving", "done">>,
     <<"finish", "done">>}

\* a validation of the current candidate is in progress
Validating == run.pc \in {"executing", "llm_validate"}

\* C24: the steps of a run follow one another in the order of the state
\* machine; a validation starts only after generation, and each validation
\* after the first only after a repair; a repair starts only after a failed
\* validation, and of the candidate that was validated; execute_query runs
\* for the run only while a validation is in progress.
C24_Sequential ==
    /\ [][run'.pc # run.pc => <<run.pc, run'.pc>> \in RunOrder]_vars
    /\ [](run.n_improve <= run.n_validate
            /\ run.n_validate <= run.n_improve + 1)
    /\ []((Validating \/ run.pc = "validated") =>
            run.n_validate = run.n_improve + 1)
    /\ [](run.n_validate >= 1 =>
            run.pc \notin {"idle", "list_fields", "generate_query"})
    /\ [][run'.n_improve # run.n_improve =>
            (run.pc = "validated" /\ ~run.is_valid)]_vars
    /\ [][(Validating \/ run.pc = "validate") =>
            run'.query_response = run.query_response]_vars
    /\ []((entry = "_arun" /\ ex.pc # "idle") => run.pc = "executing")

\* C24 witness: the third validation of a run is in progress after two
\* repairs
C24_Witness ==
    /\ Validating
    /\ run.n_validate = 3
    /\ run.n_improve = 2

\* C26: validating a candidate that has no well-formed fenced block calls
\* nothing and reports (invalid, could-not-parse); the repair that follows
\* raises the retry count by exactly one; and the run does not end with an
\* exception because of it.
C26_UnparsableIsRepaired ==
    /\ [][(run.pc = "validate" /\ ~FencedQuery(run.query_response).some) =>
            /\ run'.pc = "validated"
            /\ ~run'.is_valid
            /\ run'.complaints = COULD_NOT_PARSE
            /\ ~run'.handler
            /\ ex' = ex
            /\ wh' = wh]_vars
    /\ [][(run.pc = "validated" /\ run.complaints = COULD_NOT_PARSE) =>
            run'.n_improve = run.n_improve + 1]_vars
    /\ [][(run.pc = "improving" /\ run.complaints = COULD_NOT_PARSE
             /\ run'.pc = "loop") =>
            run'.retries = run.retries + 1]_vars

\* C27: the repair call that follows a failed validation is made with the
\* question of the run, the candidate that failed and the reason that
\* validation returned; when the validation failed on a warehouse error the
\* reason is the text of that error, unchanged; the retry counter rises by
\* one exactly when a repair call delivers its candidate and changes in no
\* other step.
C27_RepairInputs ==
    /\ [][(run.pc = "validated" /\ ~run.is_valid) =>
            /\ run'.pc = "improving"
            /\ run'.prompt =
                  Some([ga4_schema |-> run.fields, question |-> Question,
                        previous_query |-> run.query_response,
                        feedback |-> run.complaints])]_vars
    /\ [][(run.pc = "executing" /\ ex.pc = "raised"
             /\ ex.out.exc = "BadRequest") =>
            /\ run'.complaints = WhErrorText(ex.query)
            /\ run'.query_response = run.query_response]_vars
    /\ [][(run.pc = "improving" /\ run'.pc = "loop") =>
            run'.retries = run.retries + 1]_vars
    /\ [][run'.retries # run.retries =>
            (run.pc = "improving" /\ run'.pc = "loop")]_vars
    /\ [](run.prompt.some <=> run.pc = "improving")

\* C27 witness: the second repair call of a run is in flight and its
\* feedback is the warehouse's error about the query X
C27_Witness ==
    /\ run.pc = "improving"
    /\ run.retries = 1
    /\ run.query_response = Fenced(Q_X)
    /\ run.prompt.val.previous_query = Fenced(Q_X)
    /\ run.prompt.val.feedback = WhErrorText(Q_X)

\* C30: formatting a result of any number of rows with sample size n gives
\* the summary "total rows: <count>, first <k> rows: <the first k rows in
\* their order>" with k = min(n, count), and the result itself is the same
\* sequence of rows afterwards.
C30_FormatLeavesResult ==
    (call.op = "format" /\ call.pc = "done") =>
        LET results == call.arg.results
            k == Min({call.arg.n, Len(results)})
            out == call.out.val.val
        IN  /\ out.results = results
            /\ out.results_str =
                  <<"total rows: ", ToString(Len(results)), ", first ",
                    ToString(k), " rows: ",
                    ToString(SubSeq(results, 1, k))>>

\* C30 witness: a result of more rows than the sample size has been
\* formatted
C30_Witness ==
    /\ call.op = "format"
    /\ call.pc = "done"
    /\ call.arg.n = 2
    /\ Len(call.arg.results) = MaxRows
    /\ call.arg.results[1] # call.arg.results[2]

(***************************************************************************)
(* Several coroutines of one event loop share one BigQueryDatabase.  The   *)
(* event-loop thread executes one coroutine at a time, from one await that *)
(* suspends to the next; the worker threads of self._pool run beside it.   *)
(***************************************************************************)

ConcQueries == {Q_A, Q_E, Q_B, Q_X, Q_D}

\* the event-loop thread is executing no coroutine
LoopFree == co.loop = 0

TaskAt(t, op, pc) == co.task[t].op = op /\ co.task[t].pc = pc

\* lines 57-65: a task awaits db.execute_query(q).  The coroutine runs on the
\* event-loop thread into self.client.query(query, job_config=job_config),
\* a synchronous call: the thread stays in it while the dry run is in flight
co_execute_query_call(t) ==
    /\ LoopFree
    /\ co.task[t].pc = "idle"
    /\ \E q \in ConcQueries :
        co' = [co EXCEPT !.loop = t,
                         !.task[t] = [TaskIdle EXCEPT !.op = "execute_query",
                                                      !.pc = "dry_run",
                                                      !.query = q]]
    /\ wh' = [wh EXCEPT !.dry = @ + 1]
    /\ UNCHANGED <<settings_max_bytes, entry, ex, run, pag, db, call>>

\* the coroutine of task t ends with outcome out and the thread leaves it
TaskEnds(c, t, pc, out) ==
    [c EXCEPT !.loop = 0, !.task[t].pc = pc, !.task[t].out = out]

\* line 74: self._pool.submit(self._execute_query_sync, query, params)
PoolSubmit(c, t) == [c EXCEPT !.queue = Append(@, t)]

\* lines 65-75: the dry run answers; the cost check; the submission to the
\* pool; the coroutine suspends in await asyncio.wrap_future(future)
co_execute_query_cost_check(t) ==
    /\ co.loop = t
    /\ TaskAt(t, "execute_query", "dry_run")
    /\ LET q == co.task[t].query
           job == WhDryRun(q)
       IN  IF ~job.some
           THEN /\ co' = TaskEnds(co, t, "raised",
                                  Raise("BadRequest", WhErrorText(q)))
                /\ wh' = wh
           ELSE IF OverBudget(job.val, settings_max_bytes)
           THEN /\ co' = TaskEnds(co, t, "raised",
                                  Raise("QueryCostError",
                                        <<"Query would process ",
                                          ToString(job.val), " bytes">>))
                /\ wh' = wh
           ELSE IF PoolRejects(db._pool)
           THEN /\ co' = TaskEnds(co, t, "raised", PoolShutdownError)
                /\ wh' = wh
           ELSE /\ co' = PoolSubmit(TaskEnds(co, t, "await", None), t)
                /\ wh' = SubmitReal(wh, q, "execute_query")
    /\ UNCHANGED <<settings_max_bytes, entry, ex, run, pag, db, call>>

\* ThreadPoolExecutor(max_workers): a work item leaves the queue only for a
\* worker thread, and there are at most max_workers of them
WorkerRunsAtOnce(c, pool) == TRUE
WorkerFree(c, pool) == Cardinality(c.running) < pool.max_workers

\* a worker thread takes the oldest work item and calls _execute_query_sync
pool_worker_start ==
    /\ co.queue # <<>>
    /\ WorkerFree(co, db._pool)
    /\ co' = [co EXCEPT !.queue = Tail(@),
                        !.running = @ \cup {Head(co.queue)}]
    /\ UNCHANGED <<settings_max_bytes, entry, ex, run, pag, wh, db, call>>

\* lines 78-90: _execute_query_sync returns or raises on its worker thread,
\* which sets the future and is free for the next work item
co__execute_query_sync(t) ==
    /\ t \in co.running
    /\ co' = [co EXCEPT !.running = @ \ {t}, !.finished = @ \cup {t}]
    /\ UNCHANGED <<settings_max_bytes, entry, ex, run, pag, wh, db, call>>

\* lines 75-76: the event loop resumes the coroutine whose future is set
co_execute_query_await(t) ==
    /\ LoopFree
    /\ TaskAt(t, "execute_query", "await")
    /\ t \in co.finished
    /\ LET results == WhResult(co.task[t].query)
           c == [co EXCEPT !.finished = @ \ {t}]
       IN  co' = IF results.some
                 THEN TaskEnds(c, t, "returned",
                               Return(RowDicts(results.val)))
                 ELSE TaskEnds(c, t, "raised",
                               Raise("BadRequest",
                                     WhErrorText(co.task[t].query)))
    /\ UNCHANGED <<settings_max_bytes, entry, ex, run, pag, wh, db, call>>

\* await self._agenerate_response(messages): the coroutine of a run suspends
\* while the text-generation call is in flight
co__agenerate_response_call(t) ==
    /\ LoopFree
    /\ co.task[t].pc = "idle"
    /\ co' = [co EXCEPT !.task[t] = [TaskIdle EXCEPT
                            !.op = "_agenerate_response", !.pc = "await"]]
    /\ UNCHANGED <<settings_max_bytes, entry, ex, run, pag, wh, db, call>>

\* the text-generation call answers and the event loop resumes the coroutine
co__agenerate_response_return(t) ==
    /\ LoopFree
    /\ TaskAt(t, "_agenerate_response", "await")
    /\ co' = TaskEnds(co, t, "returned", Return(Fenced(Q_A)))
    /\ UNCHANGED <<settings_max_bytes, entry, ex, run, pag, wh, db, call>>

\* what the event loop can do for task t
TaskStep(t) ==
    \/ co_execute_query_call(t)
    \/ co_execute_query_cost_check(t)
    \/ co_execute_query_await(t)
    \/ co__agenerate_response_call(t)
    \/ co__agenerate_response_return(t)

NextConc ==
    \/ \E t \in Tasks : co_execute_query_call(t)
    \/ \E t \in Tasks : co_execute_query_cost_check(t)
    \/ pool_worker_start
    \/ \E t \in Tasks : co__execute_query_sync(t)
    \/ \E t \in Tasks : co_execute_query_await(t)
    \/ \E t \in Tasks : co__agenerate_response_call(t)
    \/ \E t \in Tasks : co__agenerate_response_return(t)

\* pool_size as the callers of BigQueryDatabase(pool_size=...) choose it
ConcPoolSizes == {1, 2, pool_size_default}

InitConc ==
    /\ settings_max_bytes \in Budgets
    /\ entry = "none"
    /\ ex = ExIdle
    /\ run = RunIdle
    /\ pag = PagIdle
    /\ wh = WhIdle
    /\ db \in {DbBuilt(n) : n \in ConcPoolSizes}
    /\ call = CallIdle
    /\ co = CoIdle

ConcSpec == InitConc /\ [][NextConc]_vars

\* task t has a call in flight over the network: the dry run, the real
\* execution, or a text-generation call
AtNetworkBoundary(t) ==
    \/ TaskAt(t, "execute_query", "dry_run")
    \/ TaskAt(t, "execute_query", "await") /\ t \notin co.finished
    \/ TaskAt(t, "_agenerate_response", "await")

\* task u has code to execute as soon as the event loop turns to it
HasCodeToRun(u) ==
    \/ co.task[u].pc = "idle"
    \/ TaskAt(u, "execute_query", "await") /\ u \in co.finished
    \/ TaskAt(u, "_agenerate_response", "await")

\* C23: every network boundary (the dry run, the real execution, each
\* text-generation call) is a suspension point: while one caller waits on any
\* of them, another caller of the same connector that has code to run can
\* take a step.
C23_BoundariesSuspend ==
    \A t \in Tasks : \A u \in Tasks \ {t} :
        (AtNetworkBoundary(t) /\ HasCodeToRun(u)) => ENABLED TaskStep(u)

\* a work item is in exactly one place
PoolPlaces(t) ==
    (IF t \in co.running THEN 1 ELSE 0) + (IF t \in co.finished THEN 1 ELSE 0)
    + Cardinality({i \in 1..Len(co.queue) : co.queue[i] = t})

\* C25: the real warehouse calls of execute_query that run at one time never
\* exceed the pool size fixed at construction; a call beyond it waits in the
\* pool's queue and starts as soon as a worker is free; a caller whose call
\* has completed and who still awaits its result occupies no worker.
C25_PoolBoundsRealCalls ==
    /\ Cardinality(co.running) <= db.pool_size
    /\ \A t \in Tasks :
        PoolPlaces(t) = IF TaskAt(t, "execute_query", "await") THEN 1 ELSE 0
    /\ (co.queue # <<>> /\ Cardinality(co.running) < db.pool_size)
           => ENABLED pool_worker_start
    /\ (co.queue # <<>> /\ ~ENABLED pool_worker_start)
           => Cardinality(co.running) = db.pool_size

\* C25: one call runs on the only worker, a second one waits in the queue,
\* and both callers are suspended in their await
C25_Witness ==
    /\ db.pool_size = 1
    /\ Cardinality(co.running) = 1
    /\ Len(co.queue) >= 1
    /\ \A t \in co.running : TaskAt(t, "execute_query", "await")
    /\ TaskAt(Head(co.queue), "execute_query", "await")
    /\ LoopFree

(***************************************************************************)
(* settings.BIGQUERY_MAX_BYTES_PROCESSED is an attribute of the settings   *)
(* object of the process; it can be assigned while a connector is in use.  *)
(***************************************************************************)

\* the test fixture's value and the configured default
BudgetChoices == {1000000, 1000000000}

\* settings.BIGQUERY_MAX_BYTES_PROCESSED = value
settings_update ==
    /\ \E value \in BudgetChoices \ {settings_max_bytes} :
        settings_max_bytes' = value
    /\ UNCHANGED <<entry, ex, run, pag, wh, db, call, co>>

InitSettings ==
    /\ settings_max_bytes \in BudgetChoices
    /\ entry = "none"
    /\ ex = ExIdle
    /\ run = RunIdle
    /\ pag = PagIdle
    /\ wh = WhIdle
    /\ db = DbReady
    /\ call = CallIdle
    /\ co = CoIdle

SettingsSpec == InitSettings /\ [][NextConc \/ settings_update]_vars

\* the cost check of task t's call of execute_query has been made
CostDecided(t) ==
    /\ co.task[t].op = "execute_query"
    /\ co.task[t].pc \in {"await", "returned", "raised"}
    /\ WhDryRun(co.task[t].query).some

\* the cost check rejected task t's call
CostRejected(t) ==
    /\ co.task[t].pc = "raised"
    /\ co.task[t].out.exc = "QueryCostError"

\* C28: the cost decision of a connector is a function of the estimate and
\* of the budget fixed at construction alone: two calls on one connector
\* with the same estimate get the same decision, whatever happens to the
\* settings after construction.
C28_DecisionFixedAtConstruction ==
    \A t \in Tasks : \A u \in Tasks :
        ( /\ CostDecided(t)
          /\ CostDecided(u)
          /\ WhDryRun(co.task[t].query) = WhDryRun(co.task[u].query) )
        => (CostRejected(t) <=> CostRejected(u))

(***************************************************************************)
(* Several tasks traverse results with paginated_query on one connector.   *)
(* The generator has no await of its own: each __anext__ runs from one     *)
(* yield to the next without letting another task in.                      *)
(***************************************************************************)

CursorQueries == {Q_A, Q_E}
CursorPageSizes == {1, 2}
CursorMaxPages == {None, Some(1)}

\* line 135: the token task t's generator continues with
TokenOfSomeTraversal(c, t) ==
    NextToken(c.gen[CHOOSE u \in Tasks : c.gen[u].pc = "suspended"].page.val)
TokenOf(c, t) == NextToken(c.gen[t].page.val)

\* task t calls db.paginated_query(q, page_size, max_pages)
co_paginated_query_call(t) ==
    /\ co.gen[t].pc = "idle"
    /\ \E q \in CursorQueries, page_size \in CursorPageSizes,
          max_pages \in CursorMaxPages :
        co' = [co EXCEPT !.gen[t] = [PagIdle EXCEPT !.pc = "created",
                                                    !.query = q,
                                                    !.page_size = page_size,
                                                    !.max_pages = max_pages]]
    /\ UNCHANGED <<settings_max_bytes, entry, ex, run, pag, wh, db, call>>

\* the first __anext__ of task t's generator: lines 124-133
co_paginated_query_first(t) ==
    /\ co.gen[t].pc = "created"
    /\ co' = [co EXCEPT !.gen[t] = FetchAndYield(@, None, 0)]
    /\ wh' = [SubmitReal(wh, co.gen[t].query, "paginated_query")
                EXCEPT !.fetch = @ + 1]
    /\ UNCHANGED <<settings_max_bytes, entry, ex, run, pag, db, call>>

\* a later __anext__ of task t's generator: lines 135-138, then 129-133
co_paginated_query_next(t) ==
    /\ co.gen[t].pc = "suspended"
    /\ LET g == co.gen[t]
           page_token == TokenOf(co, t)
       IN  IF StopAfter(page_token, g.max_pages, g.page_count)
           THEN /\ co' = [co EXCEPT !.gen[t] =
                            [g EXCEPT !.pc = "exhausted",
                                      !.page_token = page_token]]
                /\ wh' = wh
           ELSE /\ co' = [co EXCEPT !.gen[t] =
                            FetchAndYield(g, page_token, g.page_count + 1)]
                /\ wh' = [wh EXCEPT !.fetch = @ + 1]
    /\ UNCHANGED <<settings_max_bytes, entry, ex, run, pag, db, call>>

NextCursors ==
    \/ \E t \in Tasks : co_paginated_query_call(t)
    \/ \E t \in Tasks : co_paginated_query_first(t)
    \/ \E t \in Tasks : co_paginated_query_next(t)

CursorSpec == Init /\ [][NextCursors]_vars

\* the batches a traversal of g's query with g's page size gives when it is
\* the only one: batch i holds rows (i-1)*page_size+1 .. i*page_size
OwnBatches(g) ==
    \A i \in 1..Len(g.batches) :
        g.batches[i] =
            RowDicts(Slice(WhResult(g.query).val,
                           (i - 1) * g.page_size, i * g.page_size))

\* an uncapped traversal that has ended has yielded every row
EndedComplete(g) ==
    (g.pc = "exhausted" /\ ~g.max_pages.some)
        => Len(g.batches) * g.page_size >= Len(WhResult(g.query).val)

\* C29: traversals interleaved on one connector are independent: each
\* continues with its own tokens only, so each yields exactly the batches it
\* would yield alone, in order, complete and without a duplicate; and a
\* traversal that has ended is never resumed.
C29_TraversalsIndependent ==
    [][\A t \in Tasks :
          /\ OwnBatches(co.gen[t]')
          /\ EndedComplete(co.gen[t]')
          /\ (co.gen[t].pc = "exhausted" => co.gen[t]' = co.gen[t])]_vars

\* C29: two traversals of different results with different page sizes, on
\* one connector at the same time, have both ended after two batches each
C29_Witness ==
    /\ co.gen[1].pc = "exhausted"
    /\ co.gen[2].pc = "exhausted"
    /\ co.gen[1].query = Q_A /\ co.gen[1].page_size = 1
    /\ co.gen[2].query = Q_E /\ co.gen[2].page_size = 2
    /\ Len(co.gen[1].batches) = 2
    /\ Len(co.gen[2].batches) = 2
    /\ ~co.gen[1].max_pages.some
    /\ ~co.gen[2].max_pages.some

(***************************************************************************)
(* A caller supplies a timeout for a run.  _arun takes *args and **kwargs  *)
(* and reads only kwargs.get("query", args[0]) (lines 98-106): a timeout   *)
(* the caller passes is accepted and never looked at, and no statement of  *)
(* the run or of execute_query reads a clock.                              *)
(***************************************************************************)

\* the time the caller allowed for the run runs out while the run goes on
timeout_expires ==
    /\ entry = "_arun"
    /\ run.pc # "done"
    /\ co.timer = "armed"
    /\ co' = [co EXCEPT !.timer = "expired"]
    /\ UNCHANGED <<settings_max_bytes, entry, ex, run, pag, wh, db, call>>

\* the caller is going to pass a timeout
InitTimeout ==
    /\ settings_max_bytes \in Budgets
    /\ entry = "none"
    /\ ex = ExIdle
    /\ run = RunIdle
    /\ pag = PagIdle
    /\ wh = WhIdle
    /\ db = DbReady
    /\ call = CallIdle
    /\ co = [CoIdle EXCEPT !.timer = "armed"]

TimeoutSpec == InitTimeout /\ [][Next \/ timeout_expires]_vars

\* C22: once the timeout the caller supplied has expired, the run issues no
\* new warehouse call (dry run or real) and no new text-generation call (the
\* answer of a repair call already in flight may still arrive), and when it
\* ends the caller receives a timeout error.
C22_TimeoutBoundsRun ==
    [][(entry = "_arun" /\ co.timer = "expired") =>
          /\ wh'.dry = wh.dry
          /\ wh'.real = wh.real
          /\ run'.n_improve = run.n_improve
          /\ (run.pc # "improving" => run'.n_llm = run.n_llm)
          /\ (run.pc # "done" /\ run'.pc = "done")
                => (run'.ret.kind = "raise" /\ run'.ret.exc = "TimeoutError")
      ]_vars

\* C31: an admitted execute_query returns every row the warehouse returned,
\* one column-name-to-value mapping per row, in the warehouse's order: as
\* many rows as the warehouse gave, the i-th mapping holding exactly the
\* columns and values of the warehouse's i-th row (equal rows stay apart).
C31_RowsAsReturned ==
    (entry = "execute_query" /\ ex.pc = "returned") =>
        LET rows == WhResult(ex.query).val
            results == ex.out.val
        IN  /\ ex.out.kind = "return"
            /\ Len(results) = WhRowCount(ex.query)
            /\ \A i \in 1..Len(rows) :
                /\ DOMAIN results[i] =
                       {rows[i].keys[j] : j \in 1..Len(rows[i].keys)}
                /\ \A j \in 1..Len(rows[i].keys) :
                       results[i][rows[i].keys[j]] = rows[i].values[j]

\* C31: a call has returned three rows, the first and the third equal
C31_Witness ==
    /\ entry = "execute_query"
    /\ ex.pc = "returned"
    /\ Len(ex.out.val) = 3
    /\ ex.out.val[1] = ex.out.val[3]
    /\ ex.out.val[1] # ex.out.val[2]

(***************************************************************************)
(* Lines 190-192 of _alist_required_fields applied to any short answer of  *)
(* the text-generation capability.                                         *)
(***************************************************************************)

\* the longest answer drawn, and the characters it is made of
MaxFieldChars == 4
FieldChars == {"a", "b", ",", " ", "\n"}
FieldTexts == UNION {[1..n -> FieldChars] : n \in 0..MaxFieldChars}

InitFields ==
    /\ settings_max_bytes \in Budgets
    /\ entry = "none"
    /\ ex = ExIdle
    /\ run = RunIdle
    /\ pag = PagIdle
    /\ wh = WhIdle
    /\ db = DbReady
    /\ call \in {[CallIdle EXCEPT !.op = "_alist_required_fields",
                                  !.pc = "called", !.arg = text] :
                     text \in FieldTexts}
    /\ co = CoIdle

\* lines 189-192: the answer has arrived and the field list is returned
_alist_required_fields_return ==
    /\ call.op = "_alist_required_fields"
    /\ call.pc = "called"
    /\ call' = [call EXCEPT !.pc = "done",
                            !.out = Some(Return(FieldList(call.arg)))]
    /\ UNCHANGED <<co, settings_max_bytes, db, entry, ex, run, pag, wh>>

FieldsSpec == InitFields /\ [][_alist_required_fields_return]_vars

\* the positions that bound the entries of s: before the text, each comma,
\* after the text
Cuts(s) == {0, Len(s) + 1} \cup {i \in 1..Len(s) : s[i] = ","}

\* the k-th smallest element of S
KthOf(S, k) == CHOOSE x \in S : Cardinality({y \in S : y < x}) = k - 1

\* the k-th entry of s: what stands between the k-th cut and the next one
EntryOf(s, k) == SubSeq(s, KthOf(Cuts(s), k) + 1, KthOf(Cuts(s), k + 1) - 1)

\* C32: field selection splits the answer at its commas, trims the
\* whitespace around each entry and keeps the entries in order (joined with
\* ", "); an empty answer gives the empty field list; it never raises.
C32_FieldsSplitAndTrimmed ==
    (call.op = "_alist_required_fields" /\ call.pc = "done") =>
        LET s == call.arg
            n == Cardinality(Cuts(s)) - 1
        IN  /\ call.out.val.kind = "return"
            /\ call.out.val.val =
                   Join([k \in 1..n |-> Strip(EntryOf(s, k))], <<",", " ">>)
            /\ s = <<>> => call.out.val.val = <<>>

\* C32: an answer of two entries with whitespace around them has been split
C32_Witness ==
    /\ call.op = "_alist_required_fields"
    /\ call.pc = "done"
    /\ call.arg = <<"a", " ", ",", "b">>
    /\ call.out.val.val = <<"a", ",", " ", "b">>

\* C33: every candidate a run obtains, from query generation or from a
\* repair, is validated before the run ends unless an error ends the run
\* first: a run that ends without an error has validated as many candidates
\* as it obtained (the generated one and one per repair).
C33_EveryCandidateValidated ==
    (run.pc = "done" /\ ~run.handler) => run.n_validate = run.retries + 1

\* C34: one run makes at most MAX_RETRIES + 1 validation attempts, hence at
\* most as many dry runs and as many real warehouse executions, and at most
\* 2 + 2 * (MAX_RETRIES + 1) text-generation calls (one field selection, one
\* generation, one LLM validation per attempt, one repair per attempt); each
\* validation attempt makes at most one execute_query call.
C34_CallBudget ==
    entry = "_arun" =>
        /\ run.n_validate <= MAX_RETRIES + 1
        /\ wh.dry <= run.n_validate
        /\ wh.real <= wh.dry
        /\ run.n_improve <= run.n_validate
        /\ run.n_llm <= 2 + 2 * (MAX_RETRIES + 1)
        /\ run.n_llm <= 2 + run.n_validate + run.n_improve

\* C34: a run has ended after using the whole budget: every attempt ran its
\* query, asked the validator and was repaired
C34_Witness ==
    /\ run.pc = "done"
    /\ run.n_validate = MAX_RETRIES + 1
    /\ wh.dry = MAX_RETRIES + 1
    /\ wh.real = MAX_RETRIES + 1
    /\ run.n_llm = 2 + 2 * (MAX_RETRIES + 1)

\* C35: a candidate whose execution returns zero rows is reported invalid
\* with the no-results reason whatever validate_empty_results is, and the
\* validator is not asked about it: from the return of execute_query with no
\* row the validation ends at once, invalid, without a text-generation call.
C35_ZeroRowsInvalid ==
    [][(run.pc = "executing" /\ ex.pc = "returned" /\ Len(ex.out.val) = 0) =>
          /\ run'.pc = "validated"
          /\ ~run'.is_valid
          /\ run'.complaints = NO_RESULTS
          /\ run'.n_llm = run.n_llm]_vars

\* C35: with validate_empty_results off and LLM validation on, a candidate
\* that ran and returned no row has been reported invalid
C35_Witness ==
    /\ run.pc = "validated"
    /\ ~run.validate_empty_results
    /\ run.validate_with_llm
    /\ wh.real = 1
    /\ wh.last_real = Some([query |-> Q_Z, via |-> "execute_query"])
    /\ ~run.is_valid
    /\ run.complaints = NO_RESULTS
    /\ run.n_llm = 2

\* C36: with LLM validation enabled the validator is consulted only for a
\* candidate whose query has been extracted, admitted by the cost check,
\* executed without error and has returned at least one row; the validator
\* call of an attempt is entered only from the return of that attempt's
\* execution and is made once: it ends the attempt.
C36_ValidatorAfterExecution ==
    /\ [](run.pc = "llm_validate" =>
            /\ run.validate_with_llm
            /\ run.query = ExtractQuery(run.query_response)
            /\ run.query.some
            /\ WhDryRun(run.query.val).some
            /\ WhDryRun(run.query.val).val <= settings_max_bytes
            /\ wh.real >= 1
            /\ wh.last_real =
                   Some([query |-> run.query.val, via |-> "execute_query"])
            /\ WhResult(run.query.val).some
            /\ Len(WhResult(run.query.val).val) >= 1
            /\ run.results = Some(RowDicts(WhResult(run.query.val).val)))
    /\ [][/\ (run'.pc = "llm_validate" /\ run.pc # "llm_validate") =>
                (run.pc = "executing" /\ ex.pc = "returned")
          /\ run.pc = "llm_validate" =>
                /\ run'.pc = "validated"
                /\ run'.n_llm = run.n_llm + 1
                /\ run'.n_validate = run.n_validate
                /\ wh' = wh]_vars

\* C36: the validator is being consulted in the second attempt of a run,
\* after the second execution
C36_Witness ==
    /\ run.pc = "llm_validate"
    /\ run.n_validate = 2
    /\ wh.real = 2
    /\ run.n_llm = 4

(***************************************************************************)
(* _arun from its first statement: lines 105-106 read and parse the input  *)
(* before the try of line 108 is entered.                                  *)
(***************************************************************************)

\* a JSON text ToolInputSchema accepts, and one it does not
InputJson == <<"{chat_history: [], latest_human_message: ...}">>
InputNotJson == <<"how many events were there yesterday?">>

\* ToolInputSchema.parse_raw(text): the parsed input, None when it raises
ParseRaw(text) ==
    IF text = InputJson
    THEN Some([latest_human_message |-> Question])
    ELSE None

\* the ways _arun is called: the input as the positional argument (a JSON
\* text or not) or as the query keyword, with or without a callback manager
ArunInputs ==
    {[args |-> a[1], query |-> a[2], run_manager |-> rm] :
        a \in {<<<<InputJson>>, None>>, <<<<InputNotJson>>, None>>,
               <<<<>>, Some(InputJson)>>},
        rm \in BOOLEAN}

InitInput ==
    /\ settings_max_bytes \in Budgets
    /\ entry = "none"
    /\ ex = ExIdle
    /\ run = RunIdle
    /\ pag = PagIdle
    /\ wh = WhIdle
    /\ db = DbReady
    /\ call \in {[CallIdle EXCEPT !.op = "_arun", !.pc = "called",
                                  !.arg = input] : input \in ArunInputs}
    /\ co = CoIdle

\* lines 105-106: query = kwargs.get("query", args[0]), whose default
\* args[0] is evaluated whether or not the keyword is given, and
\* ToolInputSchema.parse_raw(query); then the try is entered
_arun_parse_input ==
    /\ call.op = "_arun"
    /\ call.pc = "called"
    /\ LET input == call.arg
           query == IF input.query.some THEN input.query.val
                    ELSE input.args[1]
       IN  IF input.args = <<>>
           THEN /\ call' = [call EXCEPT
                              !.pc = "raised",
                              !.out = Some(Raise("IndexError",
                                           <<"tuple index out of range">>))]
                /\ UNCHANGED <<entry, run>>
           ELSE IF ~ParseRaw(query).some
           THEN /\ call' = [call EXCEPT
                              !.pc = "raised",
                              !.out = Some(Raise("ValidationError",
                                           <<"1 validation error for ",
                                             "ToolInputSchema">>))]
                /\ UNCHANGED <<entry, run>>
           ELSE /\ call' = [call EXCEPT !.pc = "parsed"]
                /\ entry' = "_arun"
                /\ \E vl \in BOOLEAN, ve \in BOOLEAN :
                    run' = [RunIdle EXCEPT
                              !.pc = "list_fields",
                              !.run_manager = input.run_manager,
                              !.question =
                                  ParseRaw(query).val.latest_human_message,
                              !.validate_with_llm = vl,
                              !.validate_empty_results = ve]
    /\ UNCHANGED <<co, settings_max_bytes, db, ex, pag, wh>>

NextInput ==
    \/ _arun_parse_input
    \/ _alist_required_fields
    \/ _agenerate_query
    \/ _arun_loop
    \/ _avalidate_response_extract
    \/ _avalidate_response_results
    \/ _avalidate_response_llm
    \/ _arun_accept
    \/ _aimprove_query
    \/ _aimprove_query_response
    \/ _arun_finish
    \/ execute_query_dry_run
    \/ execute_query_cost_check
    \/ _execute_query_sync
    \/ execute_query_await

InputSpec == InitInput /\ [][NextInput]_vars

\* the call of _arun has raised to its caller
ArunRaised ==
    \/ call.pc = "raised"
    \/ run.pc = "done" /\ run.ret.kind = "raise"

\* C37 as stated: when a callback manager is supplied _arun never raises.
C37_NeverRaisesWithManager ==
    (call.op = "_arun" /\ call.arg.run_manager) => ~ArunRaised

\* C37, amended: once its input has been read and parsed, _arun with a
\* callback manager never raises: an exception of field selection,
\* generation or repair is reported through on_tool_error once and its repr
\* is returned as a string; without a callback manager the same exception
\* propagates to the caller and nothing is reported.
C37_HandledAfterInput ==
    /\ [](entry = "_arun" /\ run.run_manager => ~ArunRaised)
    /\ [][(entry = "_arun" /\ ~run.handler /\ run'.handler) =>
            /\ run.pc \in {"list_fields", "generate_query", "improving"}
            /\ run'.pc = "done"
            /\ IF run.run_manager
               THEN /\ run'.n_tool_error = run.n_tool_error + 1
                    /\ run'.ret = Return(ReprOfException(GenerationError))
               ELSE /\ run'.n_tool_error = run.n_tool_error
                    /\ run'.ret = GenerationError]_vars

\* C37: a run with a callback manager has ended in the except clause after
\* a failed repair call and has returned the repr of the exception
C37_Witness ==
    /\ call.op = "_arun"
    /\ call.pc = "parsed"
    /\ run.run_manager
    /\ run.pc = "done"
    /\ run.handler
    /\ run.n_improve = 1
    /\ run.ret = Return(ReprOfException(GenerationError))

\* the run r as it stands when the same answers and warehouse results were
\* given to a call with, or without, a callback manager
WithManager(r, rm) == [r EXCEPT !.run_manager = rm]

\* C38: for the same text-generation answers and warehouse results _arun
\* returns the same string whether or not a callback manager is supplied:
\* where the loop has ended, the value returned with a callback manager is
\* the value returned without one.
C38_ManagerOnlyObserves ==
    (entry = "_arun" /\ run.pc = "finish") =>
        ArunReturn(WithManager(run, TRUE)) = ArunReturn(WithManager(run, FALSE))

\* C39: paginated_query fetches and yields the first page in any case, also
\* for an empty result and for max_pages = 0, and it treats max_pages = 0 as
\* no cap: such a traversal ends exactly when a page comes without a
\* continuation token.
C39_FirstPageAndZeroCap ==
    [][/\ (pag.pc = "created" /\ WhResult(pag.query).some) =>
            /\ pag'.pc = "suspended"
            /\ wh'.fetch = wh.fetch + 1
            /\ pag'.batches =
                   <<RowDicts(Slice(WhResult(pag.query).val, 0,
                                    pag.page_size))>>
       /\ (pag.pc = "suspended" /\ pag.max_pages \in {None, Some(0)}) =>
            /\ pag'.pc = "exhausted" <=> ~pag.page.val.next_page_token.some
            /\ pag'.pc = "exhausted" => wh'.fetch = wh.fetch
            /\ pag'.pc # "exhausted" =>
                 /\ pag'.pc = "suspended"
                 /\ wh'.fetch = wh.fetch + 1
                 /\ Len(pag'.batches) = Len(pag.batches) + 1]_vars

\* C39: a traversal with max_pages = 0 has yielded three pages of one row
\* and ended on the empty continuation token
C39_Witness ==
    /\ pag.pc = "exhausted"
    /\ pag.max_pages = Some(0)
    /\ pag.query = Q_E
    /\ pag.page_size = 1
    /\ Len(pag.batches) = 3

(***************************************************************************)
(* Two runs of _arun in flight on one BigQueryTool.  Every name _arun and  *)
(* its helpers assign is a local of the coroutine's frame; the fields of   *)
(* the tool (self.validate_with_llm, ...) and self.db are only read.       *)
(***************************************************************************)

\* the answers drawn for the generation and refinement prompts, and for the
\* validation prompt
RunResponses == {Fenced(Q_A), R_NoFence}
RunVerdicts == {V_Yes, V_No}

\* an assignment to locals of run t's frame
SetFrameSharedRetries(c, t, r) ==
    [c EXCEPT !.run = [u \in RunIds |->
                          IF u = t THEN r
                          ELSE [c.run[u] EXCEPT !.retries = r.retries]]]
SetFrame(c, t, r) == [c EXCEPT !.run[t] = r]

\* what await self.db.execute_query(query) gives under the budget limit
ExecuteQueryOutcome(query, limit) ==
    IF ~WhDryRun(query).some
    THEN Raise("BadRequest", WhErrorText(query))
    ELSE IF OverBudget(WhDryRun(query).val, limit)
    THEN Raise("QueryCostError",
               <<"Query would process ", ToString(WhDryRun(query).val),
                 " bytes">>)
    ELSE IF WhResult(query).some
    THEN Return(RowDicts(WhResult(query).val))
    ELSE Raise("BadRequest", WhErrorText(query))

\* lines 98-124: run t is called, lists the fields and generates a candidate
co__arun_call(t) ==
    /\ co.run[t].pc = "idle"
    /\ \E response \in RunResponses :
        co' = SetFrame(co, t,
                [RunIdle EXCEPT
                    !.pc = "loop", !.run_manager = FALSE,
                    !.question = Question,
                    !.validate_with_llm = co.tool.validate_with_llm,
                    !.validate_empty_results = co.tool.validate_empty_results,
                    !.fields = FieldList(<<"a", ",", " ", "b">>),
                    !.n_llm = 2,
                    !.query_response = response])
    /\ UNCHANGED <<settings_max_bytes, entry, ex, run, pag, wh, db, call>>

\* line 126
co__arun_loop(t) ==
    /\ co.run[t].pc = "loop"
    /\ co' = SetFrame(co, t,
                [co.run[t] EXCEPT
                    !.pc = IF LoopContinues(co.run[t].result,
                                            co.run[t].retries)
                           THEN "validate" ELSE "finish"])
    /\ UNCHANGED <<settings_max_bytes, entry, ex, run, pag, wh, db, call>>

\* lines 229-249: run t extracts its query, executes it and formats the rows
co__avalidate_response(t) ==
    /\ co.run[t].pc = "validate"
    /\ LET query == ExtractQuery(co.run[t].query_response)
           r == [co.run[t] EXCEPT !.n_validate = @ + 1]
       IN  IF ~query.some
           THEN /\ co' = SetFrame(co, t,
                            Validated(r, FALSE, <<>>, COULD_NOT_PARSE))
                /\ wh' = wh
           ELSE LET out == ExecuteQueryOutcome(query.val, settings_max_bytes)
                    ran == WhDryRun(query.val).some
                             /\ ~OverBudget(WhDryRun(query.val).val,
                                            settings_max_bytes)
                    w == [wh EXCEPT !.dry = @ + 1]
                IN  /\ wh' = IF ran
                             THEN SubmitReal(w, query.val, "execute_query")
                             ELSE w
                    /\ co' = SetFrame(co, t,
                         IF out.kind = "raise"
                         THEN ValidateExcept(r, out)
                         ELSE IF NoResults(out.val)
                         THEN Validated(r, FALSE, <<>>, NO_RESULTS)
                         ELSE IF co.tool.validate_with_llm
                         THEN [r EXCEPT
                                 !.pc = "llm_validate",
                                 !.query = query,
                                 !.results = Some(Formatted(out.val).results),
                                 !.local_results_str =
                                     Formatted(out.val).results_str]
                         ELSE Validated(r, TRUE,
                                        Formatted(out.val).results_str, <<>>))
    /\ UNCHANGED <<settings_max_bytes, entry, ex, run, pag, db, call>>

\* lines 251-263: the validator's verdict on run t's candidate
co__avalidate_response_llm(t) ==
    /\ co.run[t].pc = "llm_validate"
    /\ \E response \in RunVerdicts :
        LET v == _parse_validation(response)
        IN  co' = SetFrame(co, t,
                    Validated([co.run[t] EXCEPT !.n_llm = @ + 1],
                              v[1], v[2], v[3]))
    /\ UNCHANGED <<settings_max_bytes, entry, ex, run, pag, wh, db, call>>

\* lines 133-134
co__arun_accept(t) ==
    /\ co.run[t].pc = "validated"
    /\ co.run[t].is_valid
    /\ co' = SetFrame(co, t,
                [co.run[t] EXCEPT !.pc = "loop",
                                  !.result = Some(co.run[t].query_response)])
    /\ UNCHANGED <<settings_max_bytes, entry, ex, run, pag, wh, db, call>>

\* lines 135-143: the repair call of run t and its answer
co__aimprove_query(t) ==
    /\ co.run[t].pc = "validated"
    /\ ~co.run[t].is_valid
    /\ \/ \E response \in RunResponses :
            co' = SetFrame(co, t,
                    [co.run[t] EXCEPT !.pc = "loop", !.n_llm = @ + 1,
                                      !.n_improve = @ + 1,
                                      !.query_response = response,
                                      !.retries = @ + 1])
       \/ co' = SetFrame(co, t,
                    ArunExcept([co.run[t] EXCEPT !.n_llm = @ + 1,
                                                 !.n_improve = @ + 1],
                               GenerationError))
    /\ UNCHANGED <<settings_max_bytes, entry, ex, run, pag, wh, db, call>>

\* lines 145-162
co__arun_finish(t) ==
    /\ co.run[t].pc = "finish"
    /\ co' = SetFrame(co, t, [co.run[t] EXCEPT !.pc = "done",
                                               !.ret = ArunReturn(co.run[t])])
    /\ UNCHANGED <<settings_max_bytes, entry, ex, run, pag, wh, db, call>>

NextRuns ==
    \/ \E t \in RunIds : co__arun_call(t)
    \/ \E t \in RunIds : co__arun_loop(t)
    \/ \E t \in RunIds : co__avalidate_response(t)
    \/ \E t \in RunIds : co__avalidate_response_llm(t)
    \/ \E t \in RunIds : co__arun_accept(t)
    \/ \E t \in RunIds : co__aimprove_query(t)
    \/ \E t \in RunIds : co__arun_finish(t)

\* the tool as configured by its defaults, or with LLM validation off
InitRuns ==
    /\ settings_max_bytes \in Budgets
    /\ entry = "none"
    /\ ex = ExIdle
    /\ run = RunIdle
    /\ pag = PagIdle
    /\ wh = WhIdle
    /\ db = DbReady
    /\ call = CallIdle
    /\ co \in {[CoIdle EXCEPT !.tool.validate_with_llm = vl] :
                  vl \in BOOLEAN}

RunsSpec == InitRuns /\ [][NextRuns]_vars

\* C40: two runs in flight on one tool instance keep separate candidates,
\* feedback and retry counters: a step of one run (a failed validation, a
\* repair, an acceptance) changes nothing in the frame of the other, so each
\* run's retry counter counts its own repairs only; and no step changes the
\* configuration fields of the tool.
C40_RunsIsolated ==
    /\ [][/\ \A t \in RunIds :
               co.run[t]' # co.run[t] =>
                   \A u \in RunIds \ {t} : co.run[u]' = co.run[u]
          /\ co.tool' = co.tool]_vars
    /\ [](\A t \in RunIds :
             co.run[t].retries =
                 co.run[t].n_improve - (IF co.run[t].handler THEN 1 ELSE 0))

\* C40: run 1 has just failed its first validation while run 2, after two
\* repairs, waits for the validator's verdict on another candidate
C40_Witness ==
    /\ co.run[1].pc = "validated"
    /\ ~co.run[1].is_valid
    /\ co.run[1].retries = 0
    /\ co.run[1].query_response = R_NoFence
    /\ co.run[2].pc = "llm_validate"
    /\ co.run[2].retries = 2
    /\ co.run[2].query_response = Fenced(Q_A)

====
